---- MODULE Spec2Model ----
(***************************************************************************)
(* Model of the colour engine of lynx-tailwind (colorUtils): hex <-> HSL   *)
(* conversion, variant derivation and palette generation.                  *)
(*                                                                         *)
(* The source computes with JavaScript numbers, i.e. IEEE-754 binary64     *)
(* with round-to-nearest-even. Math.round sits on values such as 25.5 that *)
(* the floating-point computation reaches as 25.499999999999996, so the    *)
(* conversions are modelled with the same arithmetic: a number is a sign,  *)
(* a 53-bit significand (kept as limbs, since the significand exceeds the  *)
(* checker's integers) and a binary exponent, and every operation rounds   *)
(* its exact result to the nearest representable number, ties to even.     *)
(***************************************************************************)
EXTENDS Integers, Sequences, FiniteSets, TLC

(***************************************************************************)
(* Natural numbers of arbitrary size: little-endian sequences of limbs in  *)
(* 0..BASE-1 without leading (high) zero limbs; zero is <<>>.              *)
(***************************************************************************)
LIMBBITS == 14
BASE == 2^LIMBBITS
SIGBITS == 53
DIVLIMBS == 4

Limb(a, i) == IF i <= Len(a) THEN a[i] ELSE 0

\* The element of a one-element set.  Only({F(v) : v \in {e}}) is F(e) with e
\* evaluated first, as a statement `const v = e` of the source is.
Only(S) == CHOOSE v \in S : TRUE

RECURSIVE BNorm(_)
BNorm(a) ==
  IF Len(a) = 0 THEN a
  ELSE IF a[Len(a)] = 0 THEN BNorm(SubSeq(a, 1, Len(a) - 1))
  ELSE a

RECURSIVE BCarry(_, _, _)
\* Carry propagation over columns cols (each < 2^31 - BASE), from column i.
BCarry(cols, i, c) ==
  IF i > Len(cols)
  THEN (IF c = 0 THEN <<>> ELSE <<c % BASE>> \o BCarry(cols, i, c \div BASE))
  ELSE LET t == cols[i] + c
       IN  <<t % BASE>> \o BCarry(cols, i + 1, t \div BASE)

BFromInt(n) == BCarry(<<>>, 1, n)

RECURSIVE BToInt(_)
BToInt(a) == IF Len(a) = 0 THEN 0 ELSE a[1] + BASE * BToInt(Tail(a))

MaxI(x, y) == IF x >= y THEN x ELSE y
MinI(x, y) == IF x <= y THEN x ELSE y

BAdd(a, b) ==
  BCarry([i \in 1..MaxI(Len(a), Len(b)) |-> Limb(a, i) + Limb(b, i)], 1, 0)

RECURSIVE BSubR(_, _, _, _)
BSubR(a, b, i, borrow) ==
  IF i > Len(a) THEN <<>>
  ELSE LET t == a[i] - Limb(b, i) - borrow
       IN  IF t < 0 THEN <<t + BASE>> \o BSubR(a, b, i + 1, 1)
           ELSE <<t>> \o BSubR(a, b, i + 1, 0)

\* a - b for a >= b
BSub(a, b) == BNorm(BSubR(a, b, 1, 0))

RECURSIVE BCmpR(_, _, _)
BCmpR(a, b, i) ==
  IF i = 0 THEN 0
  ELSE IF a[i] < b[i] THEN -1
  ELSE IF a[i] > b[i] THEN 1
  ELSE BCmpR(a, b, i - 1)

\* -1, 0, 1 as a < b, a = b, a > b
BCmp(a, b) ==
  IF Len(a) < Len(b) THEN -1
  ELSE IF Len(a) > Len(b) THEN 1
  ELSE BCmpR(a, b, Len(a))

RECURSIVE BColSum(_, _, _, _, _)
BColSum(a, b, k, i, hi) ==
  IF i > hi THEN 0 ELSE a[i] * b[k + 1 - i] + BColSum(a, b, k, i + 1, hi)

BMul(a, b) ==
  IF Len(a) = 0 \/ Len(b) = 0 THEN <<>>
  ELSE BNorm(BCarry([k \in 1..(Len(a) + Len(b) - 1) |->
                       BColSum(a, b, k, MaxI(1, k + 1 - Len(b)), MinI(Len(a), k))],
                    1, 0))

\* a * 2^k
BShl(a, k) ==
  IF Len(a) = 0 THEN a
  ELSE LET q == k \div LIMBBITS
           r == k % LIMBBITS
           p == 2^r
       IN  [i \in 1..q |-> 0] \o BCarry([i \in 1..Len(a) |-> a[i] * p], 1, 0)

\* floor(a / 2^k)
BShr(a, k) ==
  LET q == k \div LIMBBITS
      r == k % LIMBBITS
      p == 2^r
      n == Len(a) - q
  IN  IF n <= 0 THEN <<>>
      ELSE BNorm([i \in 1..n |->
                    (a[q + i] \div p) + (Limb(a, q + i + 1) % p) * (BASE \div p)])

\* a mod 2^k
BLow(a, k) == BSub(a, BShl(BShr(a, k), k))

RECURSIVE IntBitLen(_)
IntBitLen(n) == IF n = 0 THEN 0 ELSE 1 + IntBitLen(n \div 2)

BBitLen(a) ==
  IF Len(a) = 0 THEN 0 ELSE LIMBBITS * (Len(a) - 1) + IntBitLen(a[Len(a)])

BOdd(a) == Len(a) > 0 /\ a[1] % 2 = 1

RECURSIVE BDivFix(_, _)
\* Corrects an underestimated quotient limb: qr = <<limb, remainder>>, the
\* limb raised while the remainder still holds the divisor d.
BDivFix(d, qr) ==
  IF BCmp(qr[2], d) >= 0 THEN BDivFix(d, <<qr[1] + 1, BSub(qr[2], d)>>) ELSE qr

\* One step of the long division by d: the remainder r1 (already moved up one
\* limb) loses est * d, and the estimate is corrected.
BDivLimb(d, r1, est) ==
  Only({BDivFix(d, <<est, BSub(r1, p)>>) :
          p \in {BMul(d, IF est = 0 THEN <<>> ELSE <<est>>)}})

\* The next quotient limb estimated from the two top limbs of the remainder
BDivEst(d, r1) ==
  (Limb(r1, Len(d) + 1) * BASE + Limb(r1, Len(d))) \div (d[Len(d)] + 1)

BDivNext(d, q, r1) == BDivLimb(d, r1, BDivEst(d, r1))

BDivPush(q, fix) == <<(<<fix[1]>>) \o q, fix[2]>>

RECURSIVE BDivSteps(_, _, _)
\* Long division, one quotient limb per step: k more limbs of the quotient,
\* continuing from qr = <<quotient so far, remainder>> with remainder < d.
\* The divisor d has DIVLIMBS limbs, the top one at least BASE / 2, so that
\* the limb estimated from the two top limbs of the remainder is at most a
\* few units too small.  Result <<quotient, remainder>>.
BDivSteps(d, k, qr) ==
  IF k = 0 THEN qr
  ELSE Only({BDivSteps(d, k - 1, BDivPush(qr[1], fix)) :
               fix \in {BDivNext(d, qr[1],
                                 IF Len(qr[2]) = 0 THEN <<>> ELSE <<0>> \o qr[2])}})

(***************************************************************************)
(* JavaScript numbers (binary64).  Zero is FZero; any other number is      *)
(* (-1)^s * m * 2^e with 2^52 <= m < 2^53.  The values of this program     *)
(* stay far from the subnormal and overflow ranges, and NaN arises only    *)
(* from malformed hex strings, which are not numbers of this model.        *)
(***************************************************************************)
FZero == [s |-> 0, m |-> <<>>, e |-> 0]

FIsZero(x) == Len(x.m) = 0

\* A significand q of SIGBITS or SIGBITS + 1 bits brought back to SIGBITS
FCarryOut(s, q, e) ==
  IF BBitLen(q) > SIGBITS
  THEN [s |-> s, m |-> BShr(q, 1), e |-> e + 1]
  ELSE [s |-> s, m |-> q, e |-> e]

\* Round to nearest, ties to even: q is the significand cut to SIGBITS bits,
\* rb the first bit cut off, st whether anything lies below that bit
FRoundOff(s, q, e, rb, st) ==
  FCarryOut(s, IF rb /\ (st \/ BOdd(q)) THEN BAdd(q, <<1>>) ELSE q, e)

FPackLen(s, n, e, sticky, L) ==
  IF L = 0 THEN FZero
  ELSE IF L <= SIGBITS
  THEN [s |-> s, m |-> BShl(n, SIGBITS - L), e |-> e - (SIGBITS - L)]
  ELSE FRoundOff(s, BShr(n, L - SIGBITS), e + (L - SIGBITS),
                 BOdd(BShr(n, L - SIGBITS - 1)),
                 sticky \/ Len(BLow(n, L - SIGBITS - 1)) > 0)

\* The number nearest to (-1)^s * (n + f) * 2^e, ties to even, where
\* 0 <= f < 1 and f > 0 iff sticky (sticky only with n of 55 bits or more).
FPack(s, n, e, sticky) == FPackLen(s, n, e, sticky, BBitLen(n))

FFromInt(n) == FPack(IF n < 0 THEN 1 ELSE 0, BFromInt(IF n < 0 THEN -n ELSE n), 0, FALSE)

FNeg(x) == IF FIsZero(x) THEN x ELSE [x EXCEPT !.s = 1 - x.s]

FAbs(x) == [x EXCEPT !.s = 0]

\* The sum of (-1)^xs * a * 2^e0 and (-1)^ys * b * 2^e0
FAddAligned(xs, ys, a, b, e0) ==
  IF xs = ys THEN FPack(xs, BAdd(a, b), e0, FALSE)
  ELSE IF BCmp(a, b) = 0 THEN FZero
  ELSE IF BCmp(a, b) > 0 THEN FPack(xs, BSub(a, b), e0, FALSE)
  ELSE FPack(ys, BSub(b, a), e0, FALSE)

\* x + y
FAdd(x, y) ==
  IF FIsZero(x) THEN y
  ELSE IF FIsZero(y) THEN x
  ELSE FAddAligned(x.s, y.s, BShl(x.m, x.e - MinI(x.e, y.e)),
                   BShl(y.m, y.e - MinI(x.e, y.e)), MinI(x.e, y.e))

\* x - y
FSub(x, y) == FAdd(x, FNeg(y))

\* x * y
FMul(x, y) ==
  IF FIsZero(x) \/ FIsZero(y) THEN FZero
  ELSE FPack((x.s + y.s) % 2, BMul(x.m, y.m), x.e + y.e, FALSE)

FDivPack(s, qr, e) == FPack(s, BNorm(qr[1]), e, Len(qr[2]) > 0)

\* n / d for significands n and d scaled to DIVLIMBS limbs
FDivScaled(s, n, d, e) ==
  FDivPack(s,
           BDivSteps(d, DIVLIMBS,
                     IF BCmp(n, d) >= 0 THEN <<(<<1>>), BSub(n, d)>> ELSE <<(<<>>), n>>),
           e)

\* x / y for y # 0: both significands are scaled to fill DIVLIMBS limbs, and
\* DIVLIMBS quotient limbs after the leading bit give the quotient to more
\* than SIGBITS + 2 bits; what is left of the dividend is the sticky bit.
FDiv(x, y) ==
  IF FIsZero(x) THEN FZero
  ELSE FDivScaled((x.s + y.s) % 2,
                  BShl(x.m, DIVLIMBS * LIMBBITS - SIGBITS),
                  BShl(y.m, DIVLIMBS * LIMBBITS - SIGBITS),
                  x.e - y.e - DIVLIMBS * LIMBBITS)

FSign(x) == IF FIsZero(x) THEN 0 ELSE IF x.s = 1 THEN -1 ELSE 1

\* -1, 0, 1 as x < y, x = y, x > y
FCmp(x, y) ==
  IF FSign(x) # FSign(y) THEN (IF FSign(x) < FSign(y) THEN -1 ELSE 1)
  ELSE IF FSign(x) = 0 THEN 0
  ELSE IF x.e # y.e THEN (IF x.e < y.e THEN -FSign(x) ELSE FSign(x))
  ELSE FSign(x) * BCmp(x.m, y.m)

FLt(x, y) == FCmp(x, y) < 0
FLe(x, y) == FCmp(x, y) <= 0
FGt(x, y) == FCmp(x, y) > 0

\* Math.max / Math.min
FMax(x, y) == IF FLt(x, y) THEN y ELSE x
FMin(x, y) == IF FLt(y, x) THEN y ELSE x
FMax3(x, y, z) == FMax(FMax(x, y), z)
FMin3(x, y, z) == FMin(FMin(x, y), z)

\* x % 2 (the remainder is exact and keeps the sign of x)
FMod2(x) ==
  IF FIsZero(x) \/ x.e >= 1 THEN FZero
  ELSE FPack(x.s, BLow(x.m, 1 - x.e), x.e, FALSE)

\* Math.round(x): the integer nearest to x, halves rounded towards +infinity
MathRound(x) ==
  IF FIsZero(x) THEN 0
  ELSE IF x.e >= 0 THEN (IF x.s = 1 THEN -1 ELSE 1) * BToInt(BShl(x.m, x.e))
  ELSE LET k    == -x.e
           ip   == BToInt(BShr(x.m, k))
           half == BOdd(BShr(x.m, k - 1))
           rest == Len(BLow(x.m, k - 1)) > 0
       IN  IF x.s = 0 THEN ip + (IF half THEN 1 ELSE 0)
           ELSE -(ip + (IF half /\ rest THEN 1 ELSE 0))

(***************************************************************************)
(* Strings are sequences of one-character strings, so that their           *)
(* characters can be taken apart as the source does.                       *)
(***************************************************************************)
HEXDIGITS == <<"0", "1", "2", "3", "4", "5", "6", "7",
               "8", "9", "a", "b", "c", "d", "e", "f">>
UPPERDIGITS == <<"0", "1", "2", "3", "4", "5", "6", "7",
                 "8", "9", "A", "B", "C", "D", "E", "F">>

IsHexDigit(ch) == \E i \in 1..16 : HEXDIGITS[i] = ch \/ UPPERDIGITS[i] = ch

DigitValue(ch) == (CHOOSE i \in 1..16 : HEXDIGITS[i] = ch \/ UPPERDIGITS[i] = ch) - 1

\* Mutation of StrReplaceFirst: the first character dropped whatever it is,
\* as hex.slice(1) would
StrDropFirst(str, ch) == Tail(str)

RECURSIVE StrReplaceFirst(_, _)
\* str.replace(ch, ''): the string without its first occurrence of ch
StrReplaceFirst(str, ch) ==
  IF Len(str) = 0 THEN str
  ELSE IF Head(str) = ch THEN Tail(str)
  ELSE <<Head(str)>> \o StrReplaceFirst(Tail(str), ch)

\* str.substr(start, length)
Substr(str, start, length) ==
  SubSeq(str, start + 1, MinI(Len(str), start + length))

RECURSIVE ParseHexDigits(_, _)
ParseHexDigits(str, acc) ==
  IF Len(str) = 0 \/ ~IsHexDigit(Head(str)) THEN acc
  ELSE ParseHexDigits(Tail(str), 16 * acc + DigitValue(Head(str)))

\* The white space and line terminators of ECMAScript that a string of this
\* module can hold: TAB, LF, VT, FF, CR, SP, NBSP, U+1680 and U+FEFF (the
\* others, U+2000 to U+200A, U+2028, U+2029, U+202F, U+205F and U+3000,
\* cannot be written in a string here)
WHITESPACE == {"\t", "\n", "", "\f", "\r", " ", " ", " ", "﻿"}

RECURSIVE TrimStart(_)
\* The string without its leading white space
TrimStart(str) ==
  IF Len(str) > 0 /\ Head(str) \in WHITESPACE
  THEN TrimStart(Tail(str))
  ELSE str

\* parseInt(str, 16): leading white space is skipped, then a sign and a
\* prefix 0x or 0X are taken when present; the result is the value of the
\* longest run of hex digits that follows, negated after a '-', and "NaN"
\* when no hex digit follows.  The result is an integer, so the zero after
\* a '-' is the integer 0.
ParseInt16(str) ==
  LET trimmed == TrimStart(str)
      signed == Len(trimmed) > 0 /\ Head(trimmed) \in {"+", "-"}
      unsigned == IF signed THEN Tail(trimmed) ELSE trimmed
      prefixed == /\ Len(unsigned) >= 2
                  /\ unsigned[1] = "0"
                  /\ unsigned[2] \in {"x", "X"}
      digits == IF prefixed THEN SubSeq(unsigned, 3, Len(unsigned)) ELSE unsigned
  IN  IF Len(digits) = 0 \/ ~IsHexDigit(Head(digits)) THEN "NaN"
      ELSE IF signed /\ Head(trimmed) = "-" THEN -ParseHexDigits(digits, 0)
      ELSE ParseHexDigits(digits, 0)

RECURSIVE NatToString16(_)
NatToString16(n) ==
  IF n < 16 THEN <<HEXDIGITS[n + 1]>>
  ELSE NatToString16(n \div 16) \o <<HEXDIGITS[(n % 16) + 1]>>

\* n.toString(16)
ToString16(n) == IF n < 0 THEN <<"-">> \o NatToString16(-n) ELSE NatToString16(n)

RECURSIVE PadStart(_, _, _)
\* str.padStart(width, ch)
PadStart(str, width, ch) ==
  IF Len(str) >= width THEN str ELSE PadStart(<<ch>> \o str, width, ch)

(***************************************************************************)
(* Hex <-> HSL conversion                                                  *)
(***************************************************************************)
F2 == FFromInt(2)
F6 == FFromInt(6)
F100 == FFromInt(100)
F255 == FFromInt(255)
F360 == FFromInt(360)
F4 == FFromInt(4)
FOne == FFromInt(1)
FHalf == FDiv(FOne, F2)
Sixth1 == FDiv(FOne, F6)
Sixth2 == FDiv(F2, F6)
Sixth3 == FDiv(FFromInt(3), F6)
Sixth4 == FDiv(F4, F6)
Sixth5 == FDiv(FFromInt(5), F6)

\* case r / case g / case b of the switch on max
hueOf(r, g, b, max, diff) ==
  IF FIsZero(diff) THEN FZero
  ELSE IF max = r
  THEN FDiv(FAdd(FDiv(FSub(g, b), diff), IF FLt(g, b) THEN F6 ELSE FZero), F6)
  ELSE IF max = g
  THEN FDiv(FAdd(FDiv(FSub(b, r), diff), F2), F6)
  ELSE FDiv(FAdd(FDiv(FSub(r, g), diff), F4), F6)

saturationOf(max, min, diff, l) ==
  IF FIsZero(diff) THEN FZero
  ELSE IF FGt(l, FHalf) THEN FDiv(diff, FSub(FSub(F2, max), min))
  ELSE FDiv(diff, FAdd(max, min))

hslOfDiff(r, g, b, max, min, diff, l) ==
  [h |-> MathRound(FMul(hueOf(r, g, b, max, diff), F360)),
   s |-> MathRound(FMul(saturationOf(max, min, diff, l), F100)),
   l |-> MathRound(FMul(l, F100))]

hslOfExtremes(r, g, b, max, min) ==
  Only({hslOfDiff(r, g, b, max, min, diff, l) :
          diff \in {FSub(max, min)}, l \in {FDiv(FAdd(max, min), F2)}})

hslOfRgb(r, g, b) ==
  Only({hslOfExtremes(r, g, b, max, min) :
          max \in {FMax3(r, g, b)}, min \in {FMin3(r, g, b)}})

\* Mutation of hexChannel: the channel scaled by 256 instead of 255
hexChannelBy256(cleanHex, start) ==
  FDiv(FFromInt(ParseInt16(Substr(cleanHex, start, 2))), FFromInt(256))

\* parseInt(cleanHex.substr(start, 2), 16) / 255
hexChannel(cleanHex, start) ==
  FDiv(FFromInt(ParseInt16(Substr(cleanHex, start, 2))), F255)

hslOfCleanHex(cleanHex) ==
  Only({hslOfRgb(r, g, b) :
          r \in {hexChannel(cleanHex, 0)}, g \in {hexChannel(cleanHex, 2)},
          b \in {hexChannel(cleanHex, 4)}})

\* The steps of hexToHSL are the operators above, each taking the locals of
\* the source it reads as parameters of the same names.
hexToHSL(hex) ==
  Only({hslOfCleanHex(cleanHex) : cleanHex \in {StrReplaceFirst(hex, "#")}})

\* The hue sector decides which channels take c, x and 0
sectorRgb(hNorm, c, x) ==
  IF FLe(FZero, hNorm) /\ FLt(hNorm, Sixth1) THEN <<c, x, FZero>>
  ELSE IF FLe(Sixth1, hNorm) /\ FLt(hNorm, Sixth2) THEN <<x, c, FZero>>
  ELSE IF FLe(Sixth2, hNorm) /\ FLt(hNorm, Sixth3) THEN <<FZero, c, x>>
  ELSE IF FLe(Sixth3, hNorm) /\ FLt(hNorm, Sixth4) THEN <<FZero, x, c>>
  ELSE IF FLe(Sixth4, hNorm) /\ FLt(hNorm, Sixth5) THEN <<x, FZero, c>>
  ELSE IF FLe(Sixth5, hNorm) /\ FLt(hNorm, FOne) THEN <<c, FZero, x>>
  ELSE <<FZero, FZero, FZero>>

\* Math.round((v + m) * 255) of each channel
roundChannels(rgb, m) ==
  [i \in 1..3 |-> MathRound(FMul(FAdd(rgb[i], m), F255))]

channelsOfChroma(hNorm, lNorm, c) ==
  Only({roundChannels(sectorRgb(hNorm, c, x), m) :
          x \in {FMul(c, FSub(FOne, FAbs(FSub(FMod2(FMul(hNorm, F6)), FOne))))},
          m \in {FSub(lNorm, FDiv(c, F2))}})

channelsOfNorm(hNorm, sNorm, lNorm) ==
  Only({channelsOfChroma(hNorm, lNorm, c) :
          c \in {FMul(FSub(FOne, FAbs(FSub(FMul(F2, lNorm), FOne))), sNorm)}})

\* The three channels hslToHex renders: the chroma / intermediate / match
\* computation (c, x, m) over the six hue sectors, each channel scaled and
\* rounded.
hslChannels(hsl) ==
  Only({channelsOfNorm(hNorm, sNorm, lNorm) :
          hNorm \in {FDiv(FFromInt(hsl.h), F360)},
          sNorm \in {FDiv(FFromInt(hsl.s), F100)},
          lNorm \in {FDiv(FFromInt(hsl.l), F100)}})

\* Mutation of hexOfChannels: the channels rendered without padStart
hexOfChannelsUnpadded(ch) ==
  <<"#">> \o ToString16(ch[1]) \o ToString16(ch[2]) \o ToString16(ch[3])

hexOfChannels(ch) ==
  <<"#">> \o PadStart(ToString16(ch[1]), 2, "0") \o PadStart(ToString16(ch[2]), 2, "0")
          \o PadStart(ToString16(ch[3]), 2, "0")

hslToHex(hsl) == Only({hexOfChannels(ch) : ch \in {hslChannels(hsl)}})

(***************************************************************************)
(* Variant derivation.  An optional argument is <<>> when the caller       *)
(* leaves it out and <<v>> when the caller passes v.                       *)
(***************************************************************************)
DEFAULT_AMOUNT == 20
DEFAULT_OFFSET == 30

ArgOr(arg, default) == IF Len(arg) = 0 THEN default ELSE arg[1]

\* a % n on integers: the remainder of the truncated division, which keeps
\* the sign of a
JsRem(a, n) == IF a >= 0 THEN a % n ELSE -((-a) % n)

lightenColor(hsl, amount) ==
  [hsl EXCEPT !.l = MinI(100, hsl.l + ArgOr(amount, DEFAULT_AMOUNT))]

darkenColor(hsl, amount) ==
  [hsl EXCEPT !.l = MaxI(0, hsl.l - ArgOr(amount, DEFAULT_AMOUNT))]

\* Mutation of getComplementaryColor: the lightness inverted with the hue
getComplementaryColorInverted(hsl) ==
  [hsl EXCEPT !.h = JsRem(hsl.h + 180, 360), !.l = 100 - hsl.l]

getComplementaryColor(hsl) ==
  [hsl EXCEPT !.h = JsRem(hsl.h + 180, 360)]

getAnalogousColor(hsl, offset) ==
  [hsl EXCEPT !.h = JsRem(hsl.h + ArgOr(offset, DEFAULT_OFFSET), 360)]

(***************************************************************************)
(* Palette generation                                                      *)
(***************************************************************************)
paletteOfVariants(baseHSL, primaryLight, primaryDark, secondaryHSL, accentHSL) ==
  [primary |-> hslToHex(baseHSL),
   primaryLight |-> hslToHex(primaryLight),
   primaryDark |-> hslToHex(primaryDark),
   secondary |-> hslToHex(secondaryHSL),
   accent |-> hslToHex(accentHSL),
   background |-> <<"#", "f", "f", "f", "f", "f", "f">>,
   surface |-> <<"#", "f", "8", "f", "a", "f", "c">>,
   text |-> <<"#", "1", "e", "2", "9", "3", "b">>,
   textSecondary |-> <<"#", "6", "4", "7", "4", "8", "b">>]

\* Mutation of paletteOfBase: the variants taken with their default arguments
paletteOfBaseDefaults(baseHSL) ==
  Only({paletteOfVariants(baseHSL, primaryLight, primaryDark, secondaryHSL, accentHSL) :
          primaryLight \in {lightenColor(baseHSL, <<>>)},
          primaryDark \in {darkenColor(baseHSL, <<>>)},
          secondaryHSL \in {getAnalogousColor(baseHSL, <<>>)},
          accentHSL \in {[getComplementaryColor(baseHSL) EXCEPT
                            !.s = MinI(80, baseHSL.s + 20)]}})

paletteOfBase(baseHSL) ==
  Only({paletteOfVariants(baseHSL, primaryLight, primaryDark, secondaryHSL, accentHSL) :
          primaryLight \in {lightenColor(baseHSL, <<15>>)},
          primaryDark \in {darkenColor(baseHSL, <<15>>)},
          secondaryHSL \in {getAnalogousColor(baseHSL, <<60>>)},
          accentHSL \in {[getComplementaryColor(baseHSL) EXCEPT
                            !.s = MinI(80, baseHSL.s + 20)]}})

generateColorPalette(baseColor) ==
  Only({paletteOfBase(baseHSL) : baseHSL \in {hexToHSL(baseColor)}})

(***************************************************************************)
(* Contrast: relative luminance and contrast ratio                         *)
(***************************************************************************)
\* hslToRgb, from its own text: the sector chain, with a hue in no sector
\* leaving r = g = b = 0

rgbOfSectorFromGreen(hNorm, c, x) ==
  IF FLe(FZero, hNorm) /\ FLt(hNorm, Sixth1) THEN <<x, c, FZero>>
  ELSE IF FLe(Sixth1, hNorm) /\ FLt(hNorm, Sixth2) THEN <<c, x, FZero>>
  ELSE <<FZero, FZero, FZero>>

rgbOfSector(hNorm, c, x) ==
  IF FLe(FZero, hNorm) /\ FLt(hNorm, FDiv(FOne, F6)) THEN <<c, x, FZero>>
  ELSE IF FLe(FDiv(FOne, F6), hNorm) /\ FLt(hNorm, FDiv(F2, F6)) THEN <<x, c, FZero>>
  ELSE IF FLe(FDiv(F2, F6), hNorm) /\ FLt(hNorm, FDiv(FFromInt(3), F6)) THEN <<FZero, c, x>>
  ELSE IF FLe(FDiv(FFromInt(3), F6), hNorm) /\ FLt(hNorm, FDiv(F4, F6)) THEN <<FZero, x, c>>
  ELSE IF FLe(FDiv(F4, F6), hNorm) /\ FLt(hNorm, FDiv(FFromInt(5), F6)) THEN <<x, FZero, c>>
  ELSE IF FLe(FDiv(FFromInt(5), F6), hNorm) /\ FLt(hNorm, FOne) THEN <<c, FZero, x>>
  ELSE <<FZero, FZero, FZero>>

\* { r: Math.round((r + m) * 255), g: ..., b: ... }
rgbRounded(rgb, m) ==
  [r |-> MathRound(FMul(FAdd(rgb[1], m), F255)),
   g |-> MathRound(FMul(FAdd(rgb[2], m), F255)),
   b |-> MathRound(FMul(FAdd(rgb[3], m), F255))]

rgbOfChroma(hNorm, lNorm, c) ==
  Only({rgbRounded(rgbOfSector(hNorm, c, x), m) :
          x \in {FMul(c, FSub(FOne, FAbs(FSub(FMod2(FMul(hNorm, F6)), FOne))))},
          m \in {FSub(lNorm, FDiv(c, F2))}})

rgbOfNorm(hNorm, sNorm, lNorm) ==
  Only({rgbOfChroma(hNorm, lNorm, c) :
          c \in {FMul(FSub(FOne, FAbs(FSub(FMul(F2, lNorm), FOne))), sNorm)}})

hslToRgb(hsl) ==
  Only({rgbOfNorm(hNorm, sNorm, lNorm) :
          hNorm \in {FDiv(FFromInt(hsl.h), F360)},
          sNorm \in {FDiv(FFromInt(hsl.s), F100)},
          lNorm \in {FDiv(FFromInt(hsl.l), F100)}})

\* The number a decimal literal n / d of the source denotes: the double
\* nearest to it, which is the rounded quotient of the two exact integers
Decimal(n, d) == FDiv(FFromInt(n), FFromInt(d))

LINEAR_LIMIT == Decimal(3928, 100000)
LINEAR_DIVISOR == Decimal(1292, 100)
RED_WEIGHT == Decimal(2126, 10000)
GREEN_WEIGHT == Decimal(7152, 10000)
BLUE_WEIGHT == Decimal(722, 10000)
CONTRAST_OFFSET == Decimal(5, 100)
CONTRAST_REQUIRED == Decimal(45, 10)

\* Math.pow((c + 0.055) / 1.055, 2.4) for c = ch / 255, ch = 11..255 (the
\* channels above the linear limit): the significand limbs and the exponent
\* of the double nearest to the power.
POW_TABLE ==
  <<<<7321, 5270, 8987, 1754, -61>>, <<6621, 7218, 8989, 1927, -61>>,
    <<937, 15894, 907, 1055, -60>>, <<9249, 15285, 3115, 1151, -60>>,
    <<8825, 15959, 4090, 1252, -60>>, <<2344, 12783, 4972, 1358, -60>>,
    <<2325, 11587, 6877, 1469, -60>>, <<13665, 198, 10900, 1585, -60>>,
    <<13137, 16101, 1728, 1707, -60>>, <<8235, 15997, 13185, 1833, -60>>,
    <<14544, 6181, 13537, 1965, -60>>, <<4792, 12138, 10091, 1051, -59>>,
    <<68, 10794, 677, 1123, -59>>, <<2787, 11516, 3593, 1197, -59>>,
    <<10597, 3831, 2939, 1274, -59>>, <<2949, 702, 15574, 1353, -59>>,
    <<14089, 10804, 9198, 1436, -59>>, <<14003, 10486, 658, 1522, -59>>,
    <<13601, 13726, 6792, 1610, -59>>, <<5821, 10752, 11665, 1701, -59>>,
    <<15030, 4711, 15719, 1795, -59>>, <<13326, 15349, 3005, 1893, -59>>,
    <<2111, 550, 6724, 1993, -59>>, <<1684, 3531, 5457, 1048, -58>>,
    <<3298, 4875, 7998, 1101, -58>>, <<12658, 6410, 3000, 1156, -58>>,
    <<1725, 1721, 7052, 1212, -58>>, <<7179, 9950, 3971, 1270, -58>>,
    <<8100, 11514, 10342, 1329, -58>>, <<787, 14821, 9978, 1390, -58>>,
    <<11758, 8244, 3075, 1453, -58>>, <<13228, 10351, 6209, 1517, -58>>,
    <<11739, 5386, 3188, 1583, -58>>, <<2229, 9783, 10584, 1650, -58>>,
    <<32, 7559, 12201, 1719, -58>>, <<15321, 357, 8224, 1790, -58>>,
    <<11295, 8299, 15219, 1862, -58>>, <<15306, 5257, 601, 1937, -58>>,
    <<8629, 1559, 13701, 2012, -58>>, <<10360, 5981, 2772, 1045, -57>>,
    <<16166, 3611, 12730, 1084, -57>>, <<13435, 6541, 4043, 1125, -57>>,
    <<9770, 6313, 9566, 1166, -57>>, <<3345, 14418, 13000, 1208, -57>>,
    <<10959, 13447, 14431, 1251, -57>>, <<4351, 6540, 13943, 1295, -57>>,
    <<10448, 1278, 11619, 1340, -57>>, <<7888, 9961, 7541, 1386, -57>>,
    <<5358, 713, 1793, 1433, -57>>, <<14830, 12424, 10838, 1480, -57>>,
    <<9255, 7540, 1991, 1529, -57>>, <<2823, 3365, 8099, 1578, -57>>,
    <<14796, 6754, 12857, 1628, -57>>, <<5001, 14336, 16344, 1679, -57>>,
    <<16316, 12717, 2255, 1732, -57>>, <<5410, 11463, 3435, 1785, -57>>,
    <<5874, 10520, 3577, 1839, -57>>, <<6195, 413, 2758, 1894, -57>>,
    <<5855, 11580, 1052, 1950, -57>>, <<8264, 16248, 14920, 2006, -57>>,
    <<1893, 13456, 5834, 1032, -56>>, <<14357, 7290, 12070, 1061, -56>>,
    <<4498, 3625, 9820, 1091, -56>>, <<15586, 12258, 15504, 1121, -56>>,
    <<5850, 6103, 12776, 1152, -56>>, <<6482, 3176, 1671, 1184, -56>>,
    <<14667, 1138, 14993, 1215, -56>>, <<16274, 10132, 3625, 1248, -56>>,
    <<8463, 3698, 372, 1281, -56>>, <<7163, 759, 5268, 1314, -56>>,
    <<7769, 152, 1964, 1348, -56>>, <<15020, 13457, 6878, 1382, -56>>,
    <<11988, 15908, 3662, 1417, -56>>, <<382, 11986, 8734, 1452, -56>>,
    <<14801, 2708, 5744, 1488, -56>>, <<13607, 2074, 11109, 1524, -56>>,
    <<7786, 4346, 8479, 1561, -56>>, <<2672, 489, 14272, 1598, -56>>,
    <<15497, 10990, 12136, 1636, -56>>, <<5741, 3993, 2106, 1675, -56>>,
    <<13892, 10028, 597, 1714, -56>>, <<1540, 7381, 7643, 1753, -56>>,
    <<15966, 4051, 6892, 1793, -56>>, <<8240, 5039, 14760, 1833, -56>>,
    <<9893, 12382, 14895, 1874, -56>>, <<13496, 8820, 7330, 1916, -56>>,
    <<3, 6989, 8480, 1958, -56>>, <<15182, 306, 1993, 2001, -56>>,
    <<706, 12172, 4283, 2044, -56>>, <<9713, 15231, 15883, 1043, -55>>,
    <<11663, 3789, 1278, 1066, -55>>, <<111, 3967, 7492, 1088, -55>>,
    <<12255, 5691, 1773, 1111, -55>>, <<16112, 13975, 520, 1134, -55>>,
    <<4426, 16165, 3749, 1157, -55>>, <<291, 14724, 11475, 1180, -55>>,
    <<7419, 10868, 7329, 1204, -55>>, <<3573, 4583, 7710, 1228, -55>>,
    <<10062, 11021, 12632, 1252, -55>>, <<8149, 11369, 5727, 1277, -55>>,
    <<13791, 2012, 3394, 1302, -55>>, <<15987, 10936, 5646, 1327, -55>>,
    <<8244, 15821, 12499, 1352, -55>>, <<15009, 9590, 7584, 1378, -55>>,
    <<14908, 428, 7299, 1404, -55>>, <<6699, 11792, 11657, 1430, -55>>,
    <<5055, 505, 4291, 1457, -55>>, <<15488, 4227, 1597, 1484, -55>>,
    <<4867, 10398, 3590, 1511, -55>>, <<15197, 5396, 10285, 1538, -55>>,
    <<11071, 7327, 5311, 1566, -55>>, <<1657, 494, 5067, 1594, -55>>,
    <<11275, 947, 9566, 1622, -55>>, <<13438, 7347, 2438, 1651, -55>>,
    <<8604, 973, 82, 1680, -55>>, <<3, 11271, 2510, 1709, -55>>,
    <<15114, 1176, 9738, 1738, -55>>, <<9005, 14585, 5393, 1768, -55>>,
    <<10095, 12519, 5875, 1798, -55>>, <<510, 4213, 11197, 1828, -55>>,
    <<6225, 14353, 4987, 1859, -55>>, <<3944, 1172, 3645, 1890, -55>>,
    <<5088, 3911, 7182, 1921, -55>>, <<5872, 11760, 15612, 1952, -55>>,
    <<16339, 13018, 12565, 1984, -55>>, <<4685, 11490, 14438, 2016, -55>>,
    <<1363, 5053, 10622, 1024, -54>>, <<6010, 5468, 114, 1041, -54>>,
    <<11066, 15791, 8469, 1057, -54>>, <<13150, 11633, 2927, 1074, -54>>,
    <<922, 956, 16262, 1090, -54>>, <<9638, 7690, 15711, 1107, -54>>,
    <<10647, 6208, 1282, 1125, -54>>, <<12721, 3244, 5749, 1142, -54>>,
    <<14823, 5132, 12734, 1159, -54>>, <<6883, 1426, 5860, 1177, -54>>,
    <<2296, 14054, 1516, 1195, -54>>, <<3800, 15404, 16094, 1212, -54>>,
    <<1080, 10248, 448, 1231, -54>>, <<177, 2976, 3736, 1249, -54>>,
    <<2689, 13985, 9579, 1267, -54>>, <<444, 14147, 1601, 1286, -54>>,
    <<1967, 6731, 12576, 1304, -54>>, <<8861, 11024, 9741, 1323, -54>>,
    <<7701, 13183, 9487, 1342, -54>>, <<10153, 15388, 11820, 1361, -54>>,
    <<10328, 3080, 363, 1381, -54>>, <<6827, 10499, 7888, 1400, -54>>,
    <<7547, 5999, 1635, 1420, -54>>, <<930, 6741, 14377, 1439, -54>>,
    <<8313, 13157, 13352, 1459, -54>>, <<4445, 8958, 14951, 1479, -54>>,
    <<1066, 10284, 2795, 1500, -54>>, <<15045, 173, 9659, 1520, -54>>,
    <<3033, 10488, 2779, 1541, -54>>, <<8369, 7223, 14931, 1561, -54>>,
    <<12391, 5203, 13352, 1582, -54>>, <<14414, 2546, 14432, 1603, -54>>,
    <<12721, 13435, 1792, 1625, -54>>, <<1313, 2585, 8208, 1646, -54>>,
    <<15101, 16315, 915, 1668, -54>>, <<10686, 2334, 12690, 1689, -54>>,
    <<8597, 6343, 10768, 1711, -54>>, <<5578, 8203, 11540, 1733, -54>>,
    <<955, 3856, 15012, 1755, -54>>, <<6021, 5327, 4805, 1778, -54>>,
    <<3677, 7961, 13693, 1800, -54>>, <<5854, 6806, 8914, 1823, -54>>,
    <<12018, 13002, 6857, 1846, -54>>, <<16325, 4631, 7529, 1869, -54>>,
    <<14210, 8639, 10934, 1892, -54>>, <<8461, 2534, 695, 1916, -54>>,
    <<14789, 12692, 9584, 1939, -54>>, <<1318, 16059, 4840, 1963, -54>>,
    <<7844, 5682, 2853, 1987, -54>>, <<2435, 7104, 3627, 2011, -54>>,
    <<16066, 12822, 7168, 2035, -54>>, <<15538, 7532, 14933, 1029, -53>>,
    <<75, 11087, 3095, 1042, -53>>, <<6199, 12918, 9033, 1054, -53>>,
    <<80, 8739, 16366, 1066, -53>>, <<1224, 10513, 8712, 1079, -53>>,
    <<1003, 13690, 2458, 1092, -53>>, <<12015, 13589, 13991, 1104, -53>>,
    <<2578, 5403, 10546, 1117, -53>>, <<11226, 577, 8509, 1130, -53>>,
    <<15237, 10433, 7882, 1143, -53>>, <<11982, 13398, 8669, 1156, -53>>,
    <<1745, 4158, 10873, 1169, -53>>, <<3147, 10042, 14495, 1182, -53>>,
    <<2823, 9106, 3155, 1196, -53>>, <<3232, 12051, 9623, 1209, -53>>,
    <<4749, 13073, 1134, 1223, -53>>, <<3955, 6248, 10459, 1236, -53>>,
    <<8140, 1916, 4832, 1250, -53>>, <<491, 10300, 639, 1264, -53>>,
    <<3387, 8735, 14268, 1277, -53>>, <<10488, 7209, 12953, 1291, -53>>,
    <<557, 15595, 13080, 1305, -53>>, <<275, 10880, 14653, 1319, -53>>,
    <<15841, 2706, 1290, 1334, -53>>, <<13541, 604, 5761, 1348, -53>>,
    <<14875, 13989, 11684, 1362, -53>>, <<11299, 3014, 2680, 1377, -53>>,
    <<9880, 9640, 11517, 1391, -53>>, <<13293, 10182, 5431, 1406, -53>>,
    <<16023, 13614, 808, 1421, -53>>, <<463, 12418, 14035, 1435, -53>>,
    <<14762, 15348, 12346, 1450, -53>>, <<4785, 14673, 12128, 1465, -53>>,
    <<6390, 2550, 13384, 1480, -53>>, <<9883, 3801, 16115, 1495, -53>>,
    <<4578, 10375, 3940, 1511, -53>>, <<6832, 14115, 9630, 1526, -53>>,
    <<6023, 6762, 420, 1542, -53>>, <<8740, 12721, 9079, 1557, -53>>,
    <<887, 7144, 2843, 1573, -53>>, <<8009, 14231, 14481, 1588, -53>>,
    <<8005, 8932, 11229, 1604, -53>>, <<7589, 15247, 9472, 1620, -53>>,
    <<3943, 7925, 9214, 1636, -53>>, <<11772, 10767, 10456, 1652, -53>>,
    <<8351, 14710, 13201, 1668, -53>>, <<9518, 10591, 1068, 1685, -53>>,
    <<14479, 5535, 6827, 1701, -53>>, <<16066, 6571, 14096, 1717, -53>>,
    <<10857, 4248, 6494, 1734, -53>>, <<9208, 5403, 407, 1751, -53>>,
    <<12422, 395, 12222, 1767, -53>>, <<6171, 12258, 9172, 1784, -53>>,
    <<3003, 14779, 7645, 1801, -53>>, <<2801, 14421, 7643, 1818, -53>>,
    <<2315, 1171, 9169, 1835, -53>>, <<4593, 14076, 12223, 1852, -53>>,
    <<11906, 10172, 426, 1870, -53>>, <<2260, 11942, 6547, 1887, -53>>,
    <<4053, 9008, 14205, 1904, -53>>, <<6822, 7289, 7018, 1922, -53>>,
    <<2996, 12615, 1372, 1940, -53>>, <<13137, 14342, 13654, 1957, -53>>,
    <<12822, 1741, 11099, 1975, -53>>, <<6878, 13146, 10091, 1993, -53>>,
    <<5222, 4884, 10635, 2011, -53>>, <<15026, 15116, 12731, 2029, -53>>,
    <<0, 0, 0, 1024, -52>>>>

\* Math.pow is implementation-approximated: for each argument an engine
\* returns the double nearest to the power or one next to it, and the same
\* double every time it is asked.  mathPowUlp[ch] is how many units in the
\* last place the engine at hand lands from the nearest double on the
\* channel ch; the errors of two channels are independent.  The function is
\* kept on the channels of the colours at hand, the only ones looked up.
VARIABLE mathPowUlp

MathPowNearest(ch) ==
  [s |-> 0,
   m |-> <<POW_TABLE[ch - 10][1], POW_TABLE[ch - 10][2], POW_TABLE[ch - 10][3],
           POW_TABLE[ch - 10][4]>>,
   e |-> POW_TABLE[ch - 10][5]]

\* The neighbour of x (a number whose significand is not at either end of
\* its binade) ulp units in the last place away
FNeighbour(x, ulp) ==
  IF ulp = 0 THEN x
  ELSE IF ulp > 0 THEN [x EXCEPT !.m = BAdd(x.m, <<ulp>>)]
  ELSE [x EXCEPT !.m = BSub(x.m, <<-ulp>>)]

\* Math.pow((ch / 255 + 0.055) / 1.055, 2.4); the power of 1 is exactly 1
MathPowOfChannel(ch) ==
  IF ch = 255 THEN MathPowNearest(ch) ELSE FNeighbour(MathPowNearest(ch), mathPowUlp[ch])

\* The callback of the map in getLuminance, on the channel ch of 0..255
linearOfChannel(ch) ==
  Only({IF FLe(c, LINEAR_LIMIT) THEN FDiv(c, LINEAR_DIVISOR) ELSE MathPowOfChannel(ch) :
          c \in {FDiv(FFromInt(ch), F255)}})

\* Mutation of luminanceOfLinear: the blue weight 0.722 for 0.0722
luminanceOfLinearHeavyBlue(r, g, b) ==
  FAdd(FAdd(FMul(RED_WEIGHT, r), FMul(GREEN_WEIGHT, g)), FMul(Decimal(722, 1000), b))

\* 0.2126 * r + 0.7152 * g + 0.0722 * b
luminanceOfLinear(r, g, b) ==
  FAdd(FAdd(FMul(RED_WEIGHT, r), FMul(GREEN_WEIGHT, g)), FMul(BLUE_WEIGHT, b))

luminanceOfRgb(rgb) ==
  Only({luminanceOfLinear(r, g, b) :
          r \in {linearOfChannel(rgb.r)}, g \in {linearOfChannel(rgb.g)},
          b \in {linearOfChannel(rgb.b)}})

luminanceOfHsl(hsl) == Only({luminanceOfRgb(rgb) : rgb \in {hslToRgb(hsl)}})

\* The local function getLuminance of getContrastRatio
getLuminance(hex) == Only({luminanceOfHsl(hsl) : hsl \in {hexToHSL(hex)}})

\* The channels of the colour hex that getLuminance hands to Math.pow with
\* an argument other than 1
PowChannels(hex) ==
  {ch \in Only({{rgb.r, rgb.g, rgb.b} : rgb \in {hslToRgb(hexToHSL(hex))}}) :
     ch # 255 /\ FGt(FDiv(FFromInt(ch), F255), LINEAR_LIMIT)}

\* Mutation of contrastOfLuminances: the luminances taken in argument order,
\* without Math.max and Math.min
contrastOfLuminancesUnordered(lum1, lum2) ==
  FDiv(FAdd(lum1, CONTRAST_OFFSET), FAdd(lum2, CONTRAST_OFFSET))

\* (brightest + 0.05) / (darkest + 0.05)
contrastOfLuminances(lum1, lum2) ==
  FDiv(FAdd(FMax(lum1, lum2), CONTRAST_OFFSET), FAdd(FMin(lum1, lum2), CONTRAST_OFFSET))

getContrastRatio(color1, color2) ==
  Only({contrastOfLuminances(lum1, lum2) :
          lum1 \in {getLuminance(color1)}, lum2 \in {getLuminance(color2)}})

\* Mutation of meetsContrastRequirement: the enhanced threshold 7 for 4.5
meetsContrastRequirementEnhanced(foreground, background) ==
  FCmp(getContrastRatio(foreground, background), FFromInt(7)) >= 0

meetsContrastRequirement(foreground, background) ==
  FCmp(getContrastRatio(foreground, background), CONTRAST_REQUIRED) >= 0

(***************************************************************************)
(* Theme storage (themeStorage).  A JavaScript value is its type t, its    *)
(* text v (what String(value) gives; <<>> for an object) and its fields f  *)
(* (a function from the keys present; <<>> for a primitive).  An object    *)
(* travels as its fields.                                                  *)
(***************************************************************************)
JsString(chars) == [t |-> "string", v |-> chars, f |-> <<>>]
JsNumber(chars) == [t |-> "number", v |-> chars, f |-> <<>>]
JsNull == [t |-> "null", v |-> <<"n", "u", "l", "l">>, f |-> <<>>]
JsUndefined == [t |-> "undefined", v |-> <<"u", "n", "d", "e", "f", "i", "n", "e", "d">>,
                f |-> <<>>]
JsObject(fields) == [t |-> "object", v |-> <<>>, f |-> fields]
JsArray == [t |-> "array", v |-> <<>>, f |-> <<>>]

\* !value
Falsy(value) ==
  \/ value.t \in {"null", "undefined"}
  \/ value.t = "string" /\ Len(value.v) = 0
  \/ value.t = "number" /\ value.v = <<"0">>

\* typeof value === 'object' (null included)
TypeofObject(value) == value.t \in {"object", "array", "null"}

\* obj.key: undefined when the key is absent
Get(fields, key) == IF key \in DOMAIN fields THEN fields[key] ELSE JsUndefined

\* obj.key = value
Assign(fields, key, value) ==
  [k \in DOMAIN fields \cup {key} |-> IF k = key THEN value ELSE fields[k]]

\* { ...a, ...b }
Spread(a, b) == [k \in DOMAIN a \cup DOMAIN b |-> IF k \in DOMAIN b THEN b[k] ELSE a[k]]

\* The text of a storage item: JSON text carries the value it denotes; text
\* that is not JSON and the empty string carry none.
JsonText(value) == [syntax |-> "json", value |-> value]
GarbageText == [syntax |-> "garbage", value |-> JsUndefined]
EmptyText == [syntax |-> "empty", value |-> JsUndefined]

Return(value) == [threw |-> FALSE, value |-> value]
Throw == [threw |-> TRUE, value |-> <<>>]

\* JSON.parse(text): throws a SyntaxError on text that is not JSON
JSONParse(text) == IF text.syntax = "json" THEN Return(text.value) ELSE Throw

\* JSON.stringify(obj) of an object of primitives: fields whose value is
\* undefined are left out
JSONStringify(fields) ==
  JsonText(JsObject([k \in {key \in DOMAIN fields : fields[key].t # "undefined"} |->
                       fields[k]]))

SYSTEM == <<"s", "y", "s", "t", "e", "m">>
LIGHT == <<"l", "i", "g", "h", "t">>
DARK == <<"d", "a", "r", "k">>
DEFAULT_COLOR == <<"#", "3", "b", "8", "2", "f", "6">>
THEME_STORAGE_VERSION == <<"1", ".", "0", ".", "0">>

defaultThemeStorage ==
  [mode |-> JsString(SYSTEM), customColor |-> JsString(DEFAULT_COLOR),
   version |-> JsString(THEME_STORAGE_VERSION)]

\* /^#([A-Fa-f0-9]{6}|[A-Fa-f0-9]{3})$/.test(str)
HexColorRegexTest(str) ==
  /\ Len(str) \in {4, 7}
  /\ Head(str) = "#"
  /\ \A i \in 2..Len(str) : IsHexDigit(str[i])

isValidHexColorSixDigits(color) == Len(color.v) = 7 /\ HexColorRegexTest(color.v)

\* RegExp.prototype.test converts its argument to a string
isValidHexColor(color) == HexColorRegexTest(color.v)

migrateThemeStorage(oldStorage) == defaultThemeStorage

validModes == {SYSTEM, LIGHT, DARK}

\* validModes.includes(mode): strict equality with one of the three strings
IncludesMode(mode) == mode.t = "string" /\ mode.v \in validModes

repairedMode(parsed) ==
  IF ~IncludesMode(Get(parsed, "mode"))
  THEN Assign(parsed, "mode", defaultThemeStorage.mode)
  ELSE parsed

repairedColor(parsed) ==
  IF Falsy(Get(parsed, "customColor")) \/ ~isValidHexColor(Get(parsed, "customColor"))
  THEN Assign(parsed, "customColor", defaultThemeStorage.customColor)
  ELSE parsed

\* Mutation of validatedStorage: the defaults for an entry with any invalid
\* field
validatedStorageAllOrNothing(parsed) ==
  IF repairedColor(repairedMode(parsed)) = parsed THEN parsed ELSE defaultThemeStorage

\* The two field validations, one after the other on the same object
validatedStorage(parsed) == repairedColor(repairedMode(parsed))

\* loadThemeFromStorage from the parsed value on
loadParsed(parsed) ==
  IF Falsy(parsed) \/ ~TypeofObject(parsed) THEN Return(defaultThemeStorage)
  ELSE IF Get(parsed.f, "version") # JsString(THEME_STORAGE_VERSION)
  THEN Return(migrateThemeStorage(parsed.f))
  ELSE Return(validatedStorage(parsed.f))

loadStored(stored) ==
  IF Len(stored) = 0 \/ stored[1].syntax = "empty" THEN Return(defaultThemeStorage)
  ELSE IF JSONParse(stored[1]).threw THEN Throw
  ELSE loadParsed(JSONParse(stored[1]).value)

\* The body of the try block of loadThemeFromStorage on the localStorage ls:
\* ls.access says whether window.localStorage exists ("unavailable" when not),
\* whether its methods throw ("throws"), or whether only setItem throws
\* ("full"); ls.item is <<>> when getItem returns null and <<text>> otherwise.
loadTry(ls) ==
  IF ls.access = "unavailable" THEN Return(defaultThemeStorage)
  ELSE IF ls.access = "throws" THEN Throw
  ELSE loadStored(ls.item)

\* Mutation of loadThemeFromStorage: what is caught is returned as nothing
loadThemeFromStorageUncaught(ls) ==
  IF loadTry(ls).threw THEN <<>> ELSE loadTry(ls).value

\* try { ... } catch (error) { return defaultThemeStorage }
loadThemeFromStorage(ls) ==
  IF loadTry(ls).threw THEN defaultThemeStorage ELSE loadTry(ls).value

\* Mutation of updatedStorage: the update alone, without the current entry
updatedStorageReplacing(currentStorage, themeStorage) ==
  Assign(Spread(defaultThemeStorage, themeStorage), "version",
         JsString(THEME_STORAGE_VERSION))

\* { ...currentStorage, ...themeStorage, version: THEME_STORAGE_VERSION }
updatedStorage(currentStorage, themeStorage) ==
  Assign(Spread(currentStorage, themeStorage), "version", JsString(THEME_STORAGE_VERSION))

\* saveThemeToStorage: the localStorage after the call.  A setItem that
\* throws is caught and leaves the item as it was.
saveThemeToStorage(ls, themeStorage) ==
  IF ls.access # "ok" THEN ls
  ELSE [ls EXCEPT !.item =
          <<JSONStringify(updatedStorage(loadThemeFromStorage(ls), themeStorage))>>]

\* clearThemeStorage: removeItem when there is a localStorage, with a throw
\* caught; a storage whose setItem alone throws removes the item
clearThemeStorage(ls) ==
  IF ls.access \in {"ok", "full"} THEN [ls EXCEPT !.item = <<>>] ELSE ls

(***************************************************************************)
(* Theme context, hook and widgets                                         *)
(***************************************************************************)
\* The value createContext was given: what useContext returns to a
\* component that has no ThemeProvider above it
defaultThemeContext ==
  [mode |-> SYSTEM, customColor |-> DEFAULT_COLOR, provided |-> FALSE]

\* useContext(ThemeContext): <<value>>, the value of the nearest provider
\* or else the default value of the context; <<>> would be undefined
useContext(inside, providerMode, providerColor) ==
  IF inside
  THEN <<[mode |-> providerMode, customColor |-> providerColor, provided |-> TRUE]>>
  ELSE <<defaultThemeContext>>

\* if (!context) throw new Error('useTheme must be used within ...')
useThemeThrows(context) == Len(context) = 0

modeSequence == <<SYSTEM, LIGHT, DARK>>

\* seq.indexOf(x) / seq.findIndex(...): the first index from 0, or -1
IndexOf(seq, x) ==
  IF \E i \in 1..Len(seq) : seq[i] = x
  THEN (CHOOSE i \in 1..Len(seq) : seq[i] = x /\ \A j \in 1..(i - 1) : seq[j] # x) - 1
  ELSE -1

\* modeSequence[(currentIndex + 1) % modeSequence.length], in toggleMode and
\* (over themeOptions) in cycleTheme
nextMode(mode) ==
  modeSequence[JsRem(IndexOf(modeSequence, mode) + 1, Len(modeSequence)) + 1]

\* ColorPicker.validateColor
validateColorAnything(color) == TRUE

validateColor(color) == HexColorRegexTest(color)

PRESET_COLORS ==
  <<<<"#", "3", "b", "8", "2", "f", "6">>, <<"#", "e", "f", "4", "4", "4", "4">>,
    <<"#", "1", "0", "b", "9", "8", "1">>, <<"#", "f", "5", "9", "e", "0", "b">>,
    <<"#", "8", "b", "5", "c", "f", "6">>, <<"#", "0", "6", "b", "6", "d", "4">>,
    <<"#", "f", "9", "7", "3", "1", "6">>, <<"#", "8", "4", "c", "c", "1", "6">>,
    <<"#", "e", "c", "4", "8", "9", "9">>, <<"#", "6", "b", "7", "2", "8", "0">>>>

(***************************************************************************)
(* The engine as its callers drive it: a caller holds its inputs (a hex    *)
(* string, an HSL colour, an optional amount or offset), applies one of    *)
(* the functions and holds the result.                                     *)
(***************************************************************************)
\* ------------------------------------------------------------------------
\* ThemeProvider: resolving the mode and publishing it
\* ------------------------------------------------------------------------

\* getSystemPreference: window.matchMedia('(prefers-color-scheme: dark)').matches
getSystemPreference(dark) == IF dark THEN DARK ELSE LIGHT

resolveTheme(themeMode, dark) ==
  IF themeMode = SYSTEM THEN getSystemPreference(dark) ELSE themeMode

\* updateThemeMode(mode, resolvedMode): the two attributes it sets on the
\* document element
updateThemeMode(mode, resolved) == [dataTheme |-> <<resolved>>, dataThemeMode |-> <<mode>>]

listensInAlways(mode) == TRUE

\* The effect on [mode] that registers the listener returns early unless the
\* mode is 'system'
listensIn(mode) == mode = SYSTEM

\* The mode effects of one run of the effects with the given mode: the
\* cleanup of the listener effect, then the effect that resolves and publishes the mode,
\* then the listener effect, whose listenForSystemThemeChanges registers
\* handleChange and calls the callback once with mediaQuery.matches
modeEffects(mode, dark, calls) ==
  [resolvedMode |-> resolveTheme(mode, dark),
   dataTheme |-> updateThemeMode(mode, resolveTheme(mode, dark)).dataTheme,
   dataThemeMode |-> updateThemeMode(mode, resolveTheme(mode, dark)).dataThemeMode,
   listening |-> listensIn(mode),
   callbackCalls |-> IF listensIn(mode) THEN calls + 1 ELSE calls]

\* ------------------------------------------------------------------------
\* colorCalculations: the palette cache and the HSL cache
\* ------------------------------------------------------------------------

PALETTE_CACHE_LIMIT == 50
HSL_CACHE_LIMIT == 100

\* Map.prototype.has
MapHas(cache, color) == \E i \in DOMAIN cache : cache[i].key = color

\* Map.prototype.delete of keys().next().value, the first key in iteration
\* order
DeleteFirstKey(cache) == Tail(cache)

DeleteLastKey(cache) == SubSeq(cache, 1, Len(cache) - 1)

\* Map.prototype.set of a key the Map does not hold: the entry goes to the
\* end of the iteration order
MapSet(cache, color, at) == Append(cache, [key |-> color, at |-> at])

evictedEvictingNewest(cache, limit) == IF Len(cache) > limit THEN DeleteLastKey(cache) ELSE cache

\* if (cache.size > limit) cache.delete(firstKey)
evicted(cache, limit) == IF Len(cache) > limit THEN DeleteFirstKey(cache) ELSE cache

\* The Map after getCachedPalette / getCachedHSL with the given size limit;
\* at numbers the insertion
getCached(cache, color, at, limit) ==
  IF MapHas(cache, color) THEN cache ELSE MapSet(evicted(cache, limit), color, at)

getCachedPalette(cache, color, at) == getCached(cache, color, at, PALETTE_CACHE_LIMIT)

getCachedHSL(cache, color, at) == getCached(cache, color, at, HSL_CACHE_LIMIT)

\* ------------------------------------------------------------------------
\* debounce and useDebounce
\* ------------------------------------------------------------------------

\* The wait both debounced functions of the theme are made with
DEBOUNCE_WAIT == 100

clearTimeoutNothing(pending, ref) == pending

\* clearTimeout(id): the pending timeout with that id, if there is one, is
\* dropped; undefined and the id of a timeout that has fired drop nothing.
\* useDebounce calls it only when timeoutRef.current is set, debounce always.
clearTimeout(pending, ref) == {t \in pending : <<t.id>> # ref}

\* setTimeout(() => func(...args), wait) at time now
setTimeout(pending, id, args, now, wait) ==
  pending \cup {[id |-> id, due |-> now + wait, args |-> args]}

\* The pending timeouts after a call of the debounced function
debounced(pending, ref, id, args, now) ==
  setTimeout(clearTimeout(pending, ref), id, args, now, DEBOUNCE_WAIT)

\* The effect on [customColor, debouncedUpdateColors] of ThemeProvider, which
\* runs after every render because useDebounce returns a new function for the
\* new callback of each render: a non-empty colour is handed to the
\* debounced update.  pending holds the colours of the timers that have not
\* fired, in the order they were set; ownTimer says that the last of them is
\* the one in the timeoutRef of this instance of the provider, which the
\* call clears (timers of earlier instances are out of its reach) before
\* it sets its own.
colorEffect(customColor, pending, ownTimer) ==
  IF Len(customColor) > 0
  THEN Append(IF ownTimer THEN SubSeq(pending, 1, Len(pending) - 1) ELSE pending,
              customColor)
  ELSE pending

\* ------------------------------------------------------------------------
\* performanceMonitor.trackMetrics and memoryManagement.cleanup
\* ------------------------------------------------------------------------

incrementColorChanges(metrics) ==
  [metrics EXCEPT !.colorChanges = @ + 1, !.totalOperations = @ + 1]

incrementModeChangesUncounted(metrics) == [metrics EXCEPT !.modeChanges = @ + 1]

incrementModeChanges(metrics) ==
  [metrics EXCEPT !.modeChanges = @ + 1, !.totalOperations = @ + 1]

reset(metrics) ==
  [metrics EXCEPT !.colorChanges = 0, !.modeChanges = 0, !.totalOperations = 0]

VARIABLES pc, fn, hexIn, hslIn, argIn, hslOut, hexOut, palette

\* A caller of the contrast functions holds two colours and the results
VARIABLES color1, color2, contrast, contrastSwapped, meets

contrastVars == <<mathPowUlp, color1, color2, contrast, contrastSwapped, meets>>

\* The theme layer: the localStorage of the browser, the state of the
\* ThemeProvider (its useState cells and the colour its debounced update
\* waits to publish), whether the consuming components sit inside the
\* provider, what their useTheme call came to, the state of the ColorPicker,
\* and what the callers passed and received: the result of the last
\* loadThemeFromStorage call, the argument of the last saveThemeToStorage,
\* setMode and setCustomColor calls, the colour last passed to
\* generateColorPalette / hexToHSL, and the run of toggles under way.
VARIABLES localStorage, loaded, saveArg, inside, hook, provider, picker, coreArg,
          lastSetMode, lastSetColor, toggleStart, toggleCount

themeVars == <<localStorage, loaded, saveArg, inside, hook, provider, picker, coreArg,
               lastSetMode, lastSetColor, toggleStart, toggleCount>>

\* The page around the provider: the props it was given, the colour-scheme
\* preference of the OS, the resolvedMode cell, the two attributes of the
\* document element, whether handleChange is registered on the media query,
\* the state cells as the last render of the provider read them (what the
\* closures and the context of that render hold; <<>> while the provider has
\* not rendered), the mode the effects on [mode] last ran for (<<>> while
\* none ran), whether the last render has effects that did not run yet,
\* whether ThemeErrorBoundary shows its fallback, and how often the
\* callback given to listenForSystemThemeChanges was invoked
VARIABLES props, prefersDark, resolvedMode, dataTheme, dataThemeMode, listening,
          rendered, effectsMode, effectsPending, hasError, callbackCalls

displayVars == <<props, prefersDark, resolvedMode, dataTheme, dataThemeMode, listening,
                 rendered, effectsMode, effectsPending, hasError, callbackCalls>>

\* What the onColorChange prop of ColorPicker was last called with
VARIABLE notified

\* colorCalculations: the two Maps, as the sequence of their entries in
\* iteration order.  An entry holds its key (colour strings are numbered, n
\* standing for the n-th distinct string) and the number of the insertion
\* that put it there.  cacheCall describes the last call.
VARIABLES paletteCache, hslCache, paletteInserts, hslInserts, cacheCall

cacheVars == <<paletteCache, hslCache, paletteInserts, hslInserts, cacheCall>>

\* A debounced function and the timers of the page: which of the two
\* debouncers made it, the time in ms, the pending timeouts, the timeout
\* variable (timeout of debounce, timeoutRef.current of useDebounce), the id
\* the next setTimeout returns, and the calls and the runs of the wrapped
\* function so far
VARIABLES debouncer, clock, timers, timeoutRef, nextTimerId, calledLog, ranLog

debounceVars == <<debouncer, clock, timers, timeoutRef, nextTimerId, calledLog, ranLog>>

\* performanceMonitor.trackMetrics: its three counters
VARIABLE trackMetrics

pageVars == <<displayVars, notified, cacheVars, debounceVars, trackMetrics>>

vars == <<pc, fn, hexIn, hslIn, argIn, hslOut, hexOut, palette, contrastVars, themeVars,
          pageVars>>

NoHSL == [h |-> 0, s |-> 0, l |-> 0]
NoPalette == [primary |-> <<>>, primaryLight |-> <<>>, primaryDark |-> <<>>,
              secondary |-> <<>>, accent |-> <<>>, background |-> <<>>,
              surface |-> <<>>, text |-> <<>>, textSecondary |-> <<>>]

\* Bounds of the inputs
ContrastShades == 3
MaxToggles == 3
MaxCallbacks == 4
MaxPaletteInserts == 54
MaxHslInserts == 103
MaxDebouncedCalls == 3
MaxClock == 300
MaxOperations == 12
MaxCounted == 3
MaxCachedAtCleanup == 2
MaxPresets == 1
MaxOrphanedTimers == 1
ConvLevels == 6
ConvEdge == 1
PalLevels == 4
PalEdge == 1
HueStep == 45
LightStep == 10
OutOfRange == 40
MaxAmount == 120
AmountStep == 15

\* n channel values spread evenly over 0..255, and the e values next to
\* either end
Levels(n, e) ==
  {(i * 255) \div (n - 1) : i \in 0..(n - 1)} \cup (0..e) \cup ((255 - e)..255)

Upper(str) ==
  [i \in 1..Len(str) |->
     IF \E k \in 1..16 : HEXDIGITS[k] = str[i]
     THEN UPPERDIGITS[CHOOSE k \in 1..16 : HEXDIGITS[k] = str[i]]
     ELSE str[i]]

Lower(str) ==
  [i \in 1..Len(str) |->
     IF \E k \in 1..16 : UPPERDIGITS[k] = str[i]
     THEN HEXDIGITS[CHOOSE k \in 1..16 : UPPERDIGITS[k] = str[i]]
     ELSE str[i]]

\* The hex string "#rrggbb" of three channels
HexOf(r, g, b) ==
  <<"#">> \o PadStart(NatToString16(r), 2, "0") \o PadStart(NatToString16(g), 2, "0")
          \o PadStart(NatToString16(b), 2, "0")

\* The colours the tests of the repository use
TestColours ==
  {HexOf(59, 130, 246), HexOf(255, 0, 0), HexOf(255, 255, 255), HexOf(0, 0, 0),
   HexOf(204, 204, 204), HexOf(0, 0, 255)}

\* Every spelling of a colour: with and without '#', lower and upper case
Spellings(hex) == {hex, Tail(hex), Upper(hex), Tail(Upper(hex))}

ConvertInputs ==
  {HexOf(r, g, b) : r \in Levels(ConvLevels, ConvEdge), g \in Levels(ConvLevels, ConvEdge),
                    b \in Levels(ConvLevels, ConvEdge)}
  \cup UNION {Spellings(c) : c \in TestColours}

PaletteSeeds ==
  {HexOf(r, g, b) : r \in Levels(PalLevels, PalEdge), g \in Levels(PalLevels, PalEdge),
                    b \in Levels(PalLevels, PalEdge)}
  \cup TestColours \cup {Upper(c) : c \in TestColours}

VariantColours ==
  {[h |-> h, s |-> s, l |-> l] :
     h \in {v \in (-OutOfRange)..(360 + OutOfRange) : v % HueStep = 0},
     s \in {0, 91, 100},
     l \in {v \in (-OutOfRange)..(100 + OutOfRange) : v % LightStep = 0}}

VariantArgs ==
  {<<>>} \cup {<<a>> : a \in {v \in (-MaxAmount)..MaxAmount : v % AmountStep = 0}}

\* The colours whose contrast is taken: those of the tests, a scale of
\* greys, and a dark blue with two channels that go through Math.pow
ContrastColours ==
  TestColours \cup {HexOf(g, g, g) : g \in Levels(ContrastShades, 0)}
              \cup {HexOf(0, 15, 56)}

InitResults ==
  /\ pc = "start"
  /\ fn = "none"
  /\ hslOut = NoHSL
  /\ hexOut = <<>>
  /\ palette = NoPalette

InitContrastResults ==
  /\ contrast = FZero
  /\ contrastSwapped = FZero
  /\ meets = FALSE

NoContrast ==
  /\ mathPowUlp = <<>>
  /\ color1 = <<>>
  /\ color2 = <<>>
  /\ InitContrastResults

\* The ThemeProvider before its mount effect has run: the cells hold the
\* props defaultMode and defaultCustomColor
UnmountedProvider ==
  [isInitialized |-> FALSE, mode |-> SYSTEM, customColor |-> DEFAULT_COLOR,
   pendingColors |-> <<>>, ownTimer |-> FALSE]

UnmountedPicker ==
  [mounted |-> FALSE, localColor |-> <<>>, isValidColor |-> TRUE, paletteSeed |-> <<>>]

InitThemeCalls ==
  /\ loaded = <<>>
  /\ saveArg = <<>>
  /\ hook = "none"
  /\ provider = UnmountedProvider
  /\ picker = UnmountedPicker
  /\ coreArg = <<>>
  /\ lastSetMode = <<>>
  /\ lastSetColor = <<>>
  /\ toggleStart = SYSTEM
  /\ toggleCount = 0

\* The page before anything was rendered: useState('light') for
\* resolvedMode, no attributes on the document element, no listener
UnrenderedPage ==
  /\ resolvedMode = LIGHT
  /\ dataTheme = <<>>
  /\ dataThemeMode = <<>>
  /\ listening = FALSE
  /\ rendered = <<>>
  /\ effectsMode = <<>>
  /\ effectsPending = FALSE
  /\ hasError = FALSE
  /\ callbackCalls = 0

\* The props the provider has when none are passed
defaultProps == [defaultMode |-> SYSTEM, defaultCustomColor |-> DEFAULT_COLOR]

NoDisplay ==
  /\ props = defaultProps
  /\ prefersDark = FALSE
  /\ UnrenderedPage

NoCall == [cache |-> "none", color |-> 0, hit |-> FALSE]

\* new Map() twice
EmptyCaches ==
  /\ paletteCache = <<>>
  /\ hslCache = <<>>
  /\ paletteInserts = 0
  /\ hslInserts = 0
  /\ cacheCall = NoCall

\* No call of the debounced function yet: let timeout; / useRef()
NoTimers ==
  /\ clock = 0
  /\ timers = {}
  /\ timeoutRef = <<>>
  /\ nextTimerId = 1
  /\ calledLog = <<>>
  /\ ranLog = <<>>

NoDebounce == debouncer = "debounce" /\ NoTimers

\* The object literal of trackMetrics
NoMetrics == trackMetrics = [colorChanges |-> 0, modeChanges |-> 0, totalOperations |-> 0]

NoPage == NoDisplay /\ notified = <<>> /\ EmptyCaches /\ NoDebounce /\ NoMetrics

NoTheme ==
  /\ localStorage = [access |-> "unavailable", item |-> <<>>]
  /\ inside = FALSE
  /\ InitThemeCalls
  /\ NoPage

NoEngine ==
  /\ hexIn = <<>>
  /\ hslIn = NoHSL
  /\ argIn = <<>>
  /\ fn = "none"
  /\ hslOut = NoHSL
  /\ hexOut = <<>>
  /\ palette = NoPalette
  /\ NoContrast

INVALID_MODE == <<"i", "n", "v", "a", "l", "i", "d", "-", "m", "o", "d", "e">>
INVALID_COLOR == <<"i", "n", "v", "a", "l", "i", "d", "-", "c", "o", "l", "o", "r">>
OLD_VERSION == <<"0", ".", "9", ".", "0">>
RED == <<"#", "f", "f", "0", "0", "0", "0">>
GREEN == <<"#", "0", "0", "f", "f", "0", "0">>
SHORT_COLOR == <<"#", "a", "b", "c">>
COLOR_NAME == <<"b", "l", "u", "e">>

\* The object with the fields given: each option is <<>> (field absent) or
\* <<value>>
FieldsOf(m, c, v) ==
  [k \in {key \in {"mode", "customColor", "version"} :
            Len([mode |-> m, customColor |-> c, version |-> v][key]) > 0} |->
     [mode |-> m, customColor |-> c, version |-> v][k][1]]

StoredModes ==
  {<<JsString(DARK)>>, <<JsString(LIGHT)>>, <<JsString(INVALID_MODE)>>, <<>>,
   <<JsNumber(<<"1">>)>>}

StoredColours ==
  {<<JsString(RED)>>, <<JsString(SHORT_COLOR)>>, <<JsString(INVALID_COLOR)>>,
   <<JsString(<<>>)>>, <<>>, <<JsNull>>, <<JsNumber(<<"0">>)>>}

StoredVersions == {<<JsString(THEME_STORAGE_VERSION)>>, <<JsString(OLD_VERSION)>>, <<>>}

StoredEntries ==
  {<<JsonText(JsObject(FieldsOf(m, c, v)))>> :
     m \in StoredModes, c \in StoredColours, v \in StoredVersions}

\* What localStorage may hold under the key of the theme: nothing, text that
\* is not JSON, the empty string, JSON that is not an object, or an entry
StoredItems ==
  {<<>>, <<GarbageText>>, <<EmptyText>>, <<JsonText(JsNull)>>,
   <<JsonText(JsNumber(<<"4", "2">>))>>, <<JsonText(JsString(DARK))>>,
   <<JsonText(JsArray)>>}
  \cup StoredEntries

ValidEntry == <<JsonText(JsObject(FieldsOf(<<JsString(DARK)>>, <<JsString(RED)>>,
                                            <<JsString(THEME_STORAGE_VERSION)>>)))>>

StorageStates ==
  {[access |-> "ok", item |-> i] : i \in StoredItems}
  \cup {[access |-> a, item |-> i] :
          a \in {"unavailable", "throws", "full"}, i \in {<<>>, ValidEntry}}

\* The partial updates saveThemeToStorage is called with: by
\* ThemeProvider.setMode, by ThemeProvider.setCustomColor, and with both
\* fields
SavedUpdates ==
  {[mode |-> JsString(m)] : m \in validModes}
  \cup {[customColor |-> JsString(c)] : c \in {RED, GREEN, SHORT_COLOR}}
  \cup {[mode |-> JsString(DARK), customColor |-> JsString(GREEN)]}

InitStorage ==
  /\ pc = "storage"
  /\ NoEngine
  /\ localStorage \in StorageStates
  /\ inside = FALSE
  /\ InitThemeCalls
  /\ NoPage

\* The storage states the application starts from
ThemeStorageStates ==
  {[access |-> "ok", item |-> i] :
     i \in {<<>>, <<GarbageText>>, ValidEntry,
            <<JsonText(JsObject(FieldsOf(<<JsString(LIGHT)>>, <<JsString(SHORT_COLOR)>>,
                                         <<JsString(THEME_STORAGE_VERSION)>>)))>>,
            <<JsonText(JsObject(FieldsOf(<<JsString(INVALID_MODE)>>,
                                         <<JsString(INVALID_COLOR)>>,
                                         <<JsString(THEME_STORAGE_VERSION)>>)))>>,
            <<JsonText(JsObject(FieldsOf(<<JsString(DARK)>>, <<JsString(RED)>>,
                                         <<JsString(OLD_VERSION)>>)))>>}}
  \cup {[access |-> a, item |-> <<>>] : a \in {"unavailable", "throws", "full"}}

\* The presets a user taps: the first ones of the grid
TappedPresets == {PRESET_COLORS[i] : i \in 1..MaxPresets}

\* What a user types into the ColorPicker
TypedColours == {RED, Upper(GREEN), SHORT_COLOR, COLOR_NAME, Tail(RED), <<>>}

InitTheme ==
  /\ pc = "theme"
  /\ NoEngine
  /\ localStorage \in ThemeStorageStates
  /\ inside \in BOOLEAN
  /\ InitThemeCalls
  /\ NoPage

\* The props a ThemeProvider is rendered with
ProviderProps ==
  {[defaultMode |-> m, defaultCustomColor |-> c] :
     m \in {SYSTEM, LIGHT, DARK}, c \in {DEFAULT_COLOR, RED}}

\* The storage states a rendered provider starts from: nothing saved, each
\* mode saved, an entry that is repaired on load, and no storage
DisplayStorageStates ==
  {[access |-> "ok", item |-> i] :
     i \in {<<>>, ValidEntry,
            <<JsonText(JsObject(FieldsOf(<<JsString(LIGHT)>>, <<JsString(GREEN)>>,
                                         <<JsString(THEME_STORAGE_VERSION)>>)))>>,
            <<JsonText(JsObject(FieldsOf(<<JsString(SYSTEM)>>, <<JsString(RED)>>,
                                         <<JsString(THEME_STORAGE_VERSION)>>)))>>,
            <<JsonText(JsObject(FieldsOf(<<JsString(INVALID_MODE)>>, <<>>,
                                         <<JsString(THEME_STORAGE_VERSION)>>)))>>}}
  \cup {[access |-> "unavailable", item |-> <<>>]}

\* A provider about to render for the first time: the state cells hold the
\* props (useState(defaultMode), useState(defaultCustomColor))
InitDisplay ==
  /\ pc = "theme"
  /\ NoEngine
  /\ localStorage \in DisplayStorageStates
  /\ inside = TRUE
  /\ props \in ProviderProps
  /\ prefersDark \in BOOLEAN
  /\ UnrenderedPage
  /\ notified = <<>>
  /\ EmptyCaches
  /\ NoDebounce
  /\ NoMetrics
  /\ provider = [isInitialized |-> FALSE, mode |-> props.defaultMode,
                 customColor |-> props.defaultCustomColor, pendingColors |-> <<>>,
                 ownTimer |-> FALSE]
  /\ loaded = <<>>
  /\ saveArg = <<>>
  /\ hook = "none"
  /\ picker = UnmountedPicker
  /\ coreArg = <<>>
  /\ lastSetMode = <<>>
  /\ lastSetColor = <<>>
  /\ toggleStart = SYSTEM
  /\ toggleCount = 0

\* A provider about to render on a page where other code also calls the
\* functions of cssPropertyUpdater: the props index.tsx gives it
\* (defaultMode "system", defaultCustomColor "#3b82f6"), and storage that
\* holds nothing or a valid entry
InitPublish ==
  /\ InitDisplay
  /\ props.defaultMode = SYSTEM
  /\ props.defaultCustomColor = DEFAULT_COLOR
  /\ localStorage \in {[access |-> "ok", item |-> i] : i \in {<<>>, ValidEntry}}

InitConvert ==
  /\ hexIn \in ConvertInputs
  /\ hslIn = NoHSL
  /\ argIn = <<>>
  /\ InitResults
  /\ NoContrast
  /\ NoTheme

InitVariant ==
  /\ hexIn = <<>>
  /\ hslIn \in VariantColours
  /\ argIn \in VariantArgs
  /\ InitResults
  /\ NoContrast
  /\ NoTheme

InitContrast ==
  /\ hexIn = <<>>
  /\ hslIn = NoHSL
  /\ argIn = <<>>
  /\ InitResults
  /\ color1 \in ContrastColours
  /\ color2 \in ContrastColours
  /\ mathPowUlp \in [PowChannels(color1) \cup PowChannels(color2) -> {-1, 0, 1}]
  /\ InitContrastResults
  /\ NoTheme

InitPalette ==
  /\ hexIn \in PaletteSeeds
  /\ hslIn = NoHSL
  /\ argIn = <<>>
  /\ InitResults
  /\ NoContrast
  /\ NoTheme

InitCache ==
  /\ pc = "cache"
  /\ NoEngine
  /\ NoTheme

InitDebounce ==
  /\ pc = "debounce"
  /\ NoEngine
  /\ localStorage = [access |-> "unavailable", item |-> <<>>]
  /\ inside = FALSE
  /\ InitThemeCalls
  /\ NoDisplay
  /\ notified = <<>>
  /\ EmptyCaches
  /\ debouncer \in {"debounce", "useDebounce"}
  /\ NoTimers
  /\ NoMetrics

InitMetrics ==
  /\ pc = "metrics"
  /\ NoEngine
  /\ NoTheme

Init ==
  \/ InitConvert
  \/ InitVariant
  \/ InitPalette
  \/ InitContrast
  \/ InitStorage
  \/ InitTheme
  \/ InitDisplay
  \/ InitCache
  \/ InitDebounce
  \/ InitMetrics

CallHexToHSL ==
  /\ pc = "start"
  /\ Len(hexIn) > 0
  /\ hslOut' = hexToHSL(hexIn)
  /\ fn' = "hexToHSL"
  /\ pc' = "converted"
  /\ UNCHANGED <<hexIn, hslIn, argIn, hexOut, palette, contrastVars, themeVars, pageVars>>

\* The round trip: the colour hexToHSL returned goes back through hslToHex
CallHslToHex ==
  /\ pc = "converted"
  /\ hexOut' = hslToHex(hslOut)
  /\ fn' = "hslToHex"
  /\ pc' = "done"
  /\ UNCHANGED <<hexIn, hslIn, argIn, hslOut, palette, contrastVars, themeVars, pageVars>>

CallLightenColor ==
  /\ pc = "start"
  /\ Len(hexIn) = 0
  /\ hslOut' = lightenColor(hslIn, argIn)
  /\ fn' = "lightenColor"
  /\ pc' = "done"
  /\ UNCHANGED <<hexIn, hslIn, argIn, hexOut, palette, contrastVars, themeVars, pageVars>>

CallDarkenColor ==
  /\ pc = "start"
  /\ Len(hexIn) = 0
  /\ hslOut' = darkenColor(hslIn, argIn)
  /\ fn' = "darkenColor"
  /\ pc' = "done"
  /\ UNCHANGED <<hexIn, hslIn, argIn, hexOut, palette, contrastVars, themeVars, pageVars>>

\* getComplementaryColor takes no second argument
CallGetComplementaryColor ==
  /\ pc = "start"
  /\ Len(hexIn) = 0
  /\ hslOut' = getComplementaryColor(hslIn)
  /\ fn' = "getComplementaryColor"
  /\ pc' = "done"
  /\ UNCHANGED <<hexIn, hslIn, argIn, hexOut, palette, contrastVars, themeVars, pageVars>>

CallGetAnalogousColor ==
  /\ pc = "start"
  /\ Len(hexIn) = 0
  /\ hslOut' = getAnalogousColor(hslIn, argIn)
  /\ fn' = "getAnalogousColor"
  /\ pc' = "done"
  /\ UNCHANGED <<hexIn, hslIn, argIn, hexOut, palette, contrastVars, themeVars, pageVars>>

CallGenerateColorPalette ==
  /\ pc = "start"
  /\ Len(hexIn) > 0
  /\ palette' = generateColorPalette(hexIn)
  /\ fn' = "generateColorPalette"
  /\ pc' = "done"
  /\ UNCHANGED <<hexIn, hslIn, argIn, hslOut, hexOut, contrastVars, themeVars, pageVars>>

CallGetContrastRatio ==
  /\ pc = "start"
  /\ Len(color1) > 0
  /\ contrast' = getContrastRatio(color1, color2)
  /\ fn' = "getContrastRatio"
  /\ pc' = "rated"
  /\ UNCHANGED <<hexIn, hslIn, argIn, hslOut, hexOut, palette, themeVars, pageVars>>
  /\ UNCHANGED <<mathPowUlp, color1, color2, contrastSwapped, meets>>

\* The same two colours in the other order
CallGetContrastRatioSwapped ==
  /\ pc = "rated"
  /\ contrastSwapped' = getContrastRatio(color2, color1)
  /\ fn' = "getContrastRatio"
  /\ pc' = "swapped"
  /\ UNCHANGED <<hexIn, hslIn, argIn, hslOut, hexOut, palette, themeVars, pageVars>>
  /\ UNCHANGED <<mathPowUlp, color1, color2, contrast, meets>>

CallMeetsContrastRequirement ==
  /\ pc = "swapped"
  /\ meets' = meetsContrastRequirement(color1, color2)
  /\ fn' = "meetsContrastRequirement"
  /\ pc' = "done"
  /\ UNCHANGED <<hexIn, hslIn, argIn, hslOut, hexOut, palette, themeVars, pageVars>>
  /\ UNCHANGED <<mathPowUlp, color1, color2, contrast, contrastSwapped>>

(***************************************************************************)
(* The theme layer.  Every action leaves the engine and contrast state of  *)
(* the callers above alone.                                                *)
(***************************************************************************)
engineVars == <<hexIn, hslIn, argIn, hslOut, hexOut, palette, contrastVars>>

CallLoadThemeFromStorage ==
  /\ pc \in {"storage", "theme"}
  /\ loaded' = <<loadThemeFromStorage(localStorage)>>
  /\ fn' = "loadThemeFromStorage"
  /\ UNCHANGED <<pc, engineVars, pageVars, localStorage, saveArg, inside, hook, provider, picker,
                 coreArg, lastSetMode, lastSetColor, toggleStart, toggleCount>>

CallSaveThemeToStorage ==
  /\ pc = "storage"
  /\ \E themeStorage \in SavedUpdates :
       /\ localStorage' = saveThemeToStorage(localStorage, themeStorage)
       /\ saveArg' = <<themeStorage>>
  /\ fn' = "saveThemeToStorage"
  /\ UNCHANGED <<pc, engineVars, pageVars, loaded, inside, hook, provider, picker, coreArg,
                 lastSetMode, lastSetColor, toggleStart, toggleCount>>

CallClearThemeStorage ==
  /\ pc = "storage"
  /\ localStorage' = clearThemeStorage(localStorage)
  /\ fn' = "clearThemeStorage"
  /\ UNCHANGED <<pc, engineVars, pageVars, loaded, saveArg, inside, hook, provider, picker, coreArg,
                 lastSetMode, lastSetColor, toggleStart, toggleCount>>

\* The state cells of ThemeProvider as a render reads them
Cells ==
  [isInitialized |-> provider.isInitialized, mode |-> provider.mode,
   customColor |-> provider.customColor, resolvedMode |-> resolvedMode]

\* The cells as the last render read them
Rendered == IF rendered = <<>> THEN Cells ELSE rendered[1]

\* ThemeProvider renders: for the first time, with the cells holding the
\* props, or again after a setter changed a cell.  The render reads the
\* cells; its effects run later.  The effects of the render before have run
\* by then.
RenderThemeProvider ==
  /\ pc = "theme"
  /\ inside
  /\ ~hasError
  /\ ~effectsPending
  /\ rendered # <<Cells>>
  /\ rendered' = <<Cells>>
  /\ effectsPending' = TRUE
  /\ fn' = "ThemeProvider"
  /\ UNCHANGED <<pc, engineVars, props, prefersDark, resolvedMode, dataTheme,
                 dataThemeMode, listening, effectsMode, hasError, callbackCalls,
                 notified, cacheVars, debounceVars, trackMetrics, themeVars>>

\* The effects of the last render run, in the order they are written and
\* with the cells as that render read them.  When its mode differs from the
\* one the effects last ran for (or none ran yet), the listener effect is
\* cleaned up, the mode is resolved and published, and the listener is
\* registered in system mode; after the first render the mount effect puts
\* the stored theme into the cells; the colour effect runs every time.
RunEffects ==
  /\ pc = "theme"
  /\ effectsPending
  /\ (effectsMode # <<Rendered.mode>> /\ listensIn(Rendered.mode)) =>
       callbackCalls < MaxCallbacks
  /\ effectsPending' = FALSE
  /\ effectsMode' = <<Rendered.mode>>
  /\ IF effectsMode # <<Rendered.mode>>
     THEN /\ resolvedMode' =
               modeEffects(Rendered.mode, prefersDark, callbackCalls).resolvedMode
          /\ dataTheme' = modeEffects(Rendered.mode, prefersDark, callbackCalls).dataTheme
          /\ dataThemeMode' =
               modeEffects(Rendered.mode, prefersDark, callbackCalls).dataThemeMode
          /\ listening' = modeEffects(Rendered.mode, prefersDark, callbackCalls).listening
          /\ callbackCalls' =
               modeEffects(Rendered.mode, prefersDark, callbackCalls).callbackCalls
     ELSE UNCHANGED <<resolvedMode, dataTheme, dataThemeMode, listening, callbackCalls>>
  /\ provider' =
       IF effectsMode = <<>>
       THEN [isInitialized |-> TRUE,
             mode |-> loadThemeFromStorage(localStorage).mode.v,
             customColor |-> loadThemeFromStorage(localStorage).customColor.v,
             pendingColors |-> colorEffect(Rendered.customColor, provider.pendingColors,
                                           provider.ownTimer),
             ownTimer |-> provider.ownTimer \/ Len(Rendered.customColor) > 0]
       ELSE [provider EXCEPT
               !.pendingColors = colorEffect(Rendered.customColor, @, provider.ownTimer),
               !.ownTimer = @ \/ Len(Rendered.customColor) > 0]
  /\ fn' = "useEffect"
  /\ UNCHANGED <<pc, engineVars, props, prefersDark, rendered, hasError, notified,
                 cacheVars, debounceVars, trackMetrics, localStorage, loaded, saveArg,
                 inside, hook, picker, coreArg, lastSetMode, lastSetColor, toggleStart,
                 toggleCount>>

\* A debounce timer fires, the one set first (all wait the same 100 ms):
\* updateThemeColors(color) calls generateColorPalette(color) and
\* hexToHSL(color), and the change is counted.  The timer of the mounted
\* instance is the last one, so it has fired when none is left.
DebouncedUpdateColors ==
  /\ pc = "theme"
  /\ Len(provider.pendingColors) > 0
  /\ trackMetrics.totalOperations < MaxCounted
  /\ coreArg' = <<Head(provider.pendingColors)>>
  /\ provider' = [provider EXCEPT
                    !.pendingColors = Tail(@),
                    !.ownTimer = @ /\ Len(provider.pendingColors) > 1]
  /\ trackMetrics' = incrementColorChanges(trackMetrics)
  /\ fn' = "updateThemeColors"
  /\ UNCHANGED <<pc, engineVars, displayVars, notified, cacheVars, debounceVars,
                 localStorage, loaded, saveArg, inside, hook, picker,
                 lastSetMode, lastSetColor, toggleStart, toggleCount>>

\* What useContext(ThemeContext) gives the consuming components: the value
\* the provider made in its last render
Context == useContext(inside, Rendered.mode, Rendered.customColor)

\* The mode cell of the provider the components sit in, or else the mode of
\* the default context
CurrentMode == IF inside THEN provider.mode ELSE Context[1].mode

\* A component calls useTheme.  Inside a ThemeProvider it renders only in a
\* render with isInitialized set.
CallUseTheme ==
  /\ pc = "theme"
  /\ hook = "none"
  /\ inside => (rendered # <<>> /\ Rendered.isInitialized)
  /\ hook' = IF useThemeThrows(Context) THEN "threw" ELSE "returned"
  /\ fn' = "useTheme"
  /\ UNCHANGED <<pc, engineVars, pageVars, localStorage, loaded, saveArg, inside, provider, picker,
                 coreArg, lastSetMode, lastSetColor, toggleStart, toggleCount>>

\* context.setMode(newMode): ThemeProvider.setMode sets the cell, saves and
\* counts the mode change; the setMode of the default context only warns
SetMode(newMode) ==
  /\ inside => trackMetrics.totalOperations < MaxCounted
  /\ lastSetMode' = <<newMode>>
  /\ IF inside
     THEN /\ provider' = [provider EXCEPT !.mode = newMode]
          /\ localStorage' = saveThemeToStorage(localStorage, [mode |-> JsString(newMode)])
          /\ trackMetrics' = incrementModeChanges(trackMetrics)
     ELSE UNCHANGED <<provider, localStorage, trackMetrics>>

\* context.setCustomColor(newColor): ThemeProvider.setCustomColor sets the
\* cell and saves
SetCustomColor(newColor) ==
  /\ lastSetColor' = <<newColor>>
  /\ IF inside
     THEN /\ provider' = [provider EXCEPT !.customColor = newColor]
          /\ localStorage' =
               saveThemeToStorage(localStorage, [customColor |-> JsString(newColor)])
     ELSE UNCHANGED <<provider, localStorage>>

\* toggleMode of useTheme: the closure holds the mode of the render
\* that made it
ToggleMode ==
  /\ pc = "theme"
  /\ hook = "returned"
  /\ toggleCount < MaxToggles
  /\ SetMode(nextMode(Context[1].mode))
  /\ toggleStart' = IF toggleCount = 0 THEN CurrentMode ELSE toggleStart
  /\ toggleCount' = toggleCount + 1
  /\ fn' = "toggleMode"
  /\ UNCHANGED <<pc, engineVars, displayVars, notified, cacheVars, debounceVars, loaded,
                 saveArg, inside, hook, picker, coreArg, lastSetColor>>

\* cycleTheme of ThemeToggle (the button variant): the closure holds the mode of the render
\* that made it
CycleTheme ==
  /\ pc = "theme"
  /\ hook = "returned"
  /\ toggleCount < MaxToggles
  /\ SetMode(nextMode(Context[1].mode))
  /\ toggleStart' = IF toggleCount = 0 THEN CurrentMode ELSE toggleStart
  /\ toggleCount' = toggleCount + 1
  /\ fn' = "cycleTheme"
  /\ UNCHANGED <<pc, engineVars, displayVars, notified, cacheVars, debounceVars, loaded,
                 saveArg, inside, hook, picker, coreArg, lastSetColor>>

\* handleThemeChange of ThemeToggle: the user picks a mode, which ends a run
\* of toggles
HandleThemeChange ==
  /\ pc = "theme"
  /\ hook = "returned"
  /\ \E newMode \in validModes : SetMode(newMode)
  /\ toggleStart' = SYSTEM
  /\ toggleCount' = 0
  /\ fn' = "handleThemeChange"
  /\ UNCHANGED <<pc, engineVars, displayVars, notified, cacheVars, debounceVars, loaded,
                 saveArg, inside, hook, picker, coreArg, lastSetColor>>

\* The strings a component passes to setCustomColor: a six-digit and a
\* three-digit colour, a colour name and the empty string
SelectedColours == {Upper(GREEN), SHORT_COLOR, COLOR_NAME, <<>>}

\* A component that took setCustomColor from useTheme calls it with a string
CallSetCustomColor ==
  /\ pc = "theme"
  /\ hook = "returned"
  /\ \E newColor \in SelectedColours : SetCustomColor(newColor)
  /\ fn' = "setCustomColor"
  /\ UNCHANGED <<pc, engineVars, pageVars, loaded, saveArg, inside, hook, picker, coreArg,
                 lastSetMode, toggleStart, toggleCount>>

\* ColorPicker renders for the first time: its palette is generated from
\* the colour of the context
MountColorPicker ==
  /\ pc = "theme"
  /\ hook = "returned"
  /\ ~picker.mounted
  /\ picker' = [mounted |-> TRUE, localColor |-> Context[1].customColor,
                isValidColor |-> TRUE, paletteSeed |-> <<Context[1].customColor>>]
  /\ coreArg' = <<Context[1].customColor>>
  /\ fn' = "ColorPicker"
  /\ UNCHANGED <<pc, engineVars, pageVars, localStorage, loaded, saveArg, inside, hook, provider,
                 lastSetMode, lastSetColor, toggleStart, toggleCount>>

\* handleColorChange(newColor) of ColorPicker
HandleColorChange(newColor) ==
  /\ pc = "theme"
  /\ picker.mounted
  /\ IF validateColor(newColor)
     THEN /\ picker' = [picker EXCEPT !.localColor = newColor, !.isValidColor = TRUE,
                                      !.paletteSeed = <<newColor>>]
          /\ coreArg' = <<newColor>>
          /\ SetCustomColor(newColor)
          /\ notified' = <<newColor>>
     ELSE /\ picker' = [picker EXCEPT !.localColor = newColor, !.isValidColor = FALSE]
          /\ UNCHANGED <<coreArg, lastSetColor, provider, localStorage, notified>>
  /\ UNCHANGED <<pc, engineVars, displayVars, cacheVars, debounceVars, trackMetrics,
                 loaded, saveArg, inside, hook, lastSetMode, toggleStart,
                 toggleCount>>

\* The user types into the text input
TypeColor ==
  /\ \E newColor \in TypedColours : HandleColorChange(newColor)
  /\ fn' = "handleColorChange"

\* handlePresetSelect: the user taps a preset
SelectPreset ==
  /\ \E color \in TappedPresets : HandleColorChange(color)
  /\ fn' = "handlePresetSelect"

\* The effect of ColorPicker that follows the context: a valid colour of the
\* context that differs from the local one replaces it and its palette
SyncColorPicker ==
  /\ pc = "theme"
  /\ picker.mounted
  /\ Context[1].customColor # picker.localColor
  /\ validateColor(Context[1].customColor)
  /\ picker' = [picker EXCEPT !.localColor = Context[1].customColor,
                              !.paletteSeed = <<Context[1].customColor>>]
  /\ coreArg' = <<Context[1].customColor>>
  /\ fn' = "ColorPicker"
  /\ UNCHANGED <<pc, engineVars, pageVars, localStorage, loaded, saveArg, inside, hook, provider,
                 lastSetMode, lastSetColor, toggleStart, toggleCount>>

\* The OS preference flips: the media query dispatches 'change', and a
\* registered handleChange calls the callback of the listener effect, whose
\* closure holds the mode it was registered in
SystemThemeChanges ==
  /\ pc = "theme"
  /\ listening => callbackCalls < MaxCallbacks
  /\ prefersDark' = ~prefersDark
  /\ IF listening
     THEN /\ resolvedMode' = getSystemPreference(prefersDark')
          /\ dataTheme' = updateThemeMode(SYSTEM, getSystemPreference(prefersDark')).dataTheme
          /\ dataThemeMode' =
               updateThemeMode(SYSTEM, getSystemPreference(prefersDark')).dataThemeMode
          /\ callbackCalls' = callbackCalls + 1
     ELSE UNCHANGED <<resolvedMode, dataTheme, dataThemeMode, callbackCalls>>
  /\ fn' = "handleChange"
  /\ UNCHANGED <<pc, engineVars, props, listening, rendered, effectsMode, effectsPending, hasError, notified,
                 cacheVars, debounceVars, trackMetrics, themeVars>>

\* resetThemeToDefaults of ThemeErrorBoundary: the two attributes it sets
resetThemeToDefaults == [dataTheme |-> <<LIGHT>>, dataThemeMode |-> <<SYSTEM>>]

\* A descendant of ThemeErrorBoundary throws while it renders.  The boundary
\* (index.tsx: it wraps the ThemeProvider) shows its fallback, so the
\* provider and the components in it unmount: the cleanup of the listener
\* effect runs, effects that did not run yet are dropped and the cells are
\* gone, to start from the props at the next mount; the timer of the
\* debounced update is not cleared and no later instance can clear it.
\* componentDidCatch resets the attributes.
CatchError ==
  /\ pc = "theme"
  /\ inside
  /\ ~hasError
  /\ rendered # <<>>
  /\ Len(provider.pendingColors) <= MaxOrphanedTimers
  /\ hasError' = TRUE
  /\ listening' = FALSE
  /\ rendered' = <<>>
  /\ effectsMode' = <<>>
  /\ effectsPending' = FALSE
  /\ resolvedMode' = LIGHT
  /\ provider' = [isInitialized |-> FALSE, mode |-> props.defaultMode,
                  customColor |-> props.defaultCustomColor,
                  pendingColors |-> provider.pendingColors, ownTimer |-> FALSE]
  /\ hook' = "none"
  /\ picker' = UnmountedPicker
  /\ dataTheme' = resetThemeToDefaults.dataTheme
  /\ dataThemeMode' = resetThemeToDefaults.dataThemeMode
  /\ fn' = "componentDidCatch"
  /\ UNCHANGED <<pc, engineVars, props, prefersDark, callbackCalls, notified, cacheVars,
                 debounceVars, trackMetrics, localStorage, loaded, saveArg, inside,
                 coreArg, lastSetMode, lastSetColor, toggleStart, toggleCount>>

\* handleRetry of ThemeErrorBoundary: the children render again
HandleRetry ==
  /\ pc = "theme"
  /\ hasError
  /\ hasError' = FALSE
  /\ fn' = "handleRetry"
  /\ UNCHANGED <<pc, engineVars, props, prefersDark, resolvedMode, dataTheme,
                 dataThemeMode, listening, rendered, effectsMode, effectsPending, callbackCalls, notified,
                 cacheVars, debounceVars, trackMetrics, themeVars>>

\* The modes and resolved modes a caller of cssPropertyUpdater passes
ResolvedThemes == {LIGHT, DARK}

\* A direct call of updateThemeMode(mode, resolvedMode)
CallUpdateThemeMode ==
  /\ pc = "theme"
  /\ \E mode \in validModes, resolved \in ResolvedThemes :
       /\ dataTheme' = updateThemeMode(mode, resolved).dataTheme
       /\ dataThemeMode' = updateThemeMode(mode, resolved).dataThemeMode
  /\ fn' = "updateThemeMode"
  /\ UNCHANGED <<pc, engineVars, props, prefersDark, resolvedMode, listening, rendered,
                 effectsMode, effectsPending, hasError, callbackCalls, notified, cacheVars, debounceVars,
                 trackMetrics, themeVars>>

\* updateThemeColors(customColor), called by other code on its own: the
\* colour variables are written and the two attributes are left alone
CallUpdateThemeColors ==
  /\ pc = "theme"
  /\ \E customColor \in {RED} : coreArg' = <<customColor>>
  /\ fn' = "updateThemeColors"
  /\ UNCHANGED <<pc, engineVars, displayVars, notified, cacheVars, debounceVars,
                 trackMetrics, localStorage, loaded, saveArg, inside, hook, provider,
                 picker, lastSetMode, lastSetColor, toggleStart, toggleCount>>

\* initializeTheme(customColor, mode, resolvedMode): updateThemeColors, then
\* updateThemeMode
CallInitializeTheme ==
  /\ pc = "theme"
  /\ \E customColor \in {RED}, mode \in validModes, resolved \in ResolvedThemes :
       /\ coreArg' = <<customColor>>
       /\ dataTheme' = updateThemeMode(mode, resolved).dataTheme
       /\ dataThemeMode' = updateThemeMode(mode, resolved).dataThemeMode
  /\ fn' = "initializeTheme"
  /\ UNCHANGED <<pc, engineVars, props, prefersDark, resolvedMode, listening, rendered,
                 effectsMode, effectsPending, hasError, callbackCalls, notified, cacheVars, debounceVars,
                 trackMetrics, localStorage, loaded, saveArg, inside, hook, provider,
                 picker, lastSetMode, lastSetColor, toggleStart, toggleCount>>

\* resetTheme(): updateThemeColors('#3b82f6'), then
\* updateThemeMode('system', 'light')
CallResetTheme ==
  /\ pc = "theme"
  /\ coreArg' = <<DEFAULT_COLOR>>
  /\ dataTheme' = updateThemeMode(SYSTEM, LIGHT).dataTheme
  /\ dataThemeMode' = updateThemeMode(SYSTEM, LIGHT).dataThemeMode
  /\ fn' = "resetTheme"
  /\ UNCHANGED <<pc, engineVars, props, prefersDark, resolvedMode, listening, rendered,
                 effectsMode, effectsPending, hasError, callbackCalls, notified, cacheVars, debounceVars,
                 trackMetrics, localStorage, loaded, saveArg, inside, hook, provider,
                 picker, lastSetMode, lastSetColor, toggleStart, toggleCount>>

\* The keys that are cached
CachedKeys(cache) == {cache[i].key : i \in DOMAIN cache}

\* The colours a caller asks for: the one cached first, the one cached last,
\* a colour that was evicted, and a colour never asked for before
EvictedKeys(cache, inserts) == (1..inserts) \ CachedKeys(cache)

AskedColours(cache, inserts) ==
  (IF cache = <<>> THEN {} ELSE {cache[1].key, cache[Len(cache)].key})
  \cup (IF EvictedKeys(cache, inserts) = {} THEN {}
        ELSE {CHOOSE k \in EvictedKeys(cache, inserts) :
                \A j \in EvictedKeys(cache, inserts) : k <= j})
  \cup {inserts + 1}

\* How many insertions a sub-model lets a cache see
InsertsBound(max) == IF pc = "cache" THEN max ELSE MaxCachedAtCleanup

CallGetCachedPalette ==
  /\ pc \in {"cache", "metrics"}
  /\ \E color \in AskedColours(paletteCache, paletteInserts) :
       /\ ~MapHas(paletteCache, color) => paletteInserts < InsertsBound(MaxPaletteInserts)
       /\ paletteCache' = getCachedPalette(paletteCache, color, paletteInserts + 1)
       /\ paletteInserts' =
            IF MapHas(paletteCache, color) THEN paletteInserts ELSE paletteInserts + 1
       /\ cacheCall' = [cache |-> "palette", color |-> color,
                        hit |-> MapHas(paletteCache, color)]
  /\ fn' = "getCachedPalette"
  /\ UNCHANGED <<pc, engineVars, themeVars, displayVars, notified, debounceVars, trackMetrics, hslCache,
                 hslInserts>>

\* The HSL cache is asked for the colour cached first or for a new one
CallGetCachedHSL ==
  /\ pc \in {"cache", "metrics"}
  /\ \E color \in (IF hslCache = <<>> THEN {} ELSE {hslCache[1].key}) \cup {hslInserts + 1} :
       /\ ~MapHas(hslCache, color) => hslInserts < InsertsBound(MaxHslInserts)
       /\ hslCache' = getCachedHSL(hslCache, color, hslInserts + 1)
       /\ hslInserts' = IF MapHas(hslCache, color) THEN hslInserts ELSE hslInserts + 1
       /\ cacheCall' = [cache |-> "hsl", color |-> color, hit |-> MapHas(hslCache, color)]
  /\ fn' = "getCachedHSL"
  /\ UNCHANGED <<pc, engineVars, themeVars, displayVars, notified, debounceVars,
                 trackMetrics, paletteCache, paletteInserts>>

\* The times that pass between two events
Delays == {DEBOUNCE_WAIT \div 2, DEBOUNCE_WAIT - 1, DEBOUNCE_WAIT}

\* The debounced function is called with a colour
CallDebounced ==
  /\ pc = "debounce"
  /\ Len(calledLog) < MaxDebouncedCalls
  /\ \E color \in {RED, GREEN} :
       /\ timers' = debounced(timers, timeoutRef, nextTimerId, color, clock)
       /\ calledLog' = Append(calledLog, [at |-> clock, args |-> color])
  /\ timeoutRef' = <<nextTimerId>>
  /\ nextTimerId' = nextTimerId + 1
  /\ fn' = debouncer
  /\ UNCHANGED <<pc, engineVars, themeVars, displayVars, notified, cacheVars, trackMetrics,
                 debouncer,
                 clock, ranLog>>

\* Time passes
AdvanceClock ==
  /\ pc = "debounce"
  /\ \E d \in Delays : clock + d <= MaxClock /\ clock' = clock + d
  /\ fn' = "clock"
  /\ UNCHANGED <<pc, engineVars, themeVars, displayVars, notified, cacheVars, trackMetrics,
                 debouncer,
                 timers, timeoutRef, nextTimerId, calledLog, ranLog>>

\* A timeout that is due fires, not before its time and possibly later:
\* the wrapped function runs with the arguments of the call that set it.
\* For debouncedUpdateThemeColors that is updateThemeColors(color); for the
\* useDebounce of ThemeProvider it is the callback that calls
\* updateThemeColors(color) and counts the colour change.
FireTimeout ==
  /\ pc = "debounce"
  /\ \E t \in timers :
       /\ t.due <= clock
       /\ timers' = timers \ {t}
       /\ ranLog' = Append(ranLog, [at |-> clock, args |-> t.args])
       /\ coreArg' = <<t.args>>
  /\ trackMetrics' = IF debouncer = "useDebounce"
                     THEN incrementColorChanges(trackMetrics)
                     ELSE trackMetrics
  /\ fn' = "timeout"
  /\ UNCHANGED <<pc, engineVars, displayVars, notified, cacheVars, debouncer,
                 clock, timeoutRef, nextTimerId, calledLog, localStorage, loaded,
                 saveArg, inside, hook, provider, picker, lastSetMode, lastSetColor,
                 toggleStart, toggleCount>>

\* The debounced colour update of ThemeProvider counts a colour change
CallIncrementColorChanges ==
  /\ pc = "metrics"
  /\ trackMetrics.totalOperations < MaxOperations
  /\ trackMetrics' = incrementColorChanges(trackMetrics)
  /\ fn' = "incrementColorChanges"
  /\ UNCHANGED <<pc, engineVars, themeVars, displayVars, notified, cacheVars, debounceVars>>

\* setMode of ThemeProvider counts a mode change
CallIncrementModeChanges ==
  /\ pc = "metrics"
  /\ trackMetrics.totalOperations < MaxOperations
  /\ trackMetrics' = incrementModeChanges(trackMetrics)
  /\ fn' = "incrementModeChanges"
  /\ UNCHANGED <<pc, engineVars, themeVars, displayVars, notified, cacheVars, debounceVars>>

CallReset ==
  /\ pc = "metrics"
  /\ trackMetrics' = reset(trackMetrics)
  /\ fn' = "reset"
  /\ UNCHANGED <<pc, engineVars, themeVars, displayVars, notified, cacheVars, debounceVars>>

\* colorCalculations.clearCaches: both Maps are cleared
CallClearCaches ==
  /\ pc = "metrics"
  /\ paletteCache' = <<>>
  /\ hslCache' = <<>>
  /\ fn' = "clearCaches"
  /\ UNCHANGED <<pc, engineVars, themeVars, displayVars, notified, paletteInserts,
                 hslInserts, cacheCall, debounceVars, trackMetrics>>

\* memoryManagement.cleanup: clearCaches, then reset
CallCleanup ==
  /\ pc = "metrics"
  /\ paletteCache' = <<>>
  /\ hslCache' = <<>>
  /\ trackMetrics' = reset(trackMetrics)
  /\ fn' = "cleanup"
  /\ UNCHANGED <<pc, engineVars, themeVars, displayVars, notified, paletteInserts,
                 hslInserts, cacheCall, debounceVars>>

NextConvert == CallHexToHSL \/ CallHslToHex

NextVariant ==
  \/ CallLightenColor
  \/ CallDarkenColor
  \/ CallGetComplementaryColor
  \/ CallGetAnalogousColor

NextPalette == CallGenerateColorPalette

NextContrast ==
  \/ CallGetContrastRatio
  \/ CallGetContrastRatioSwapped
  \/ CallMeetsContrastRequirement

NextStorage ==
  \/ CallLoadThemeFromStorage
  \/ CallSaveThemeToStorage
  \/ CallClearThemeStorage

NextHook ==
  \/ RenderThemeProvider
  \/ RunEffects
  \/ CallUseTheme
  \/ ToggleMode
  \/ CycleTheme
  \/ HandleThemeChange
  \/ CallLoadThemeFromStorage

NextPicker ==
  \/ RenderThemeProvider
  \/ RunEffects
  \/ DebouncedUpdateColors
  \/ CallUseTheme
  \/ MountColorPicker
  \/ TypeColor
  \/ SelectPreset
  \/ SyncColorPicker

NextSession ==
  \/ RenderThemeProvider
  \/ RunEffects
  \/ CallUseTheme
  \/ HandleThemeChange
  \/ CallSetCustomColor
  \/ CallLoadThemeFromStorage

NextDisplay ==
  \/ RenderThemeProvider
  \/ RunEffects
  \/ SystemThemeChanges
  \/ CallUseTheme
  \/ HandleThemeChange
  \/ CatchError
  \/ HandleRetry

NextPublish ==
  \/ NextDisplay
  \/ CallUpdateThemeMode
  \/ CallUpdateThemeColors
  \/ CallInitializeTheme
  \/ CallResetTheme

NextCache == CallGetCachedPalette \/ CallGetCachedHSL

NextDebounce == CallDebounced \/ AdvanceClock \/ FireTimeout

NextMetrics ==
  \/ CallIncrementColorChanges
  \/ CallIncrementModeChanges
  \/ CallReset
  \/ CallGetCachedPalette
  \/ CallGetCachedHSL
  \/ CallClearCaches
  \/ CallCleanup

Next ==
  \/ NextConvert
  \/ NextVariant
  \/ NextPalette
  \/ NextContrast
  \/ NextStorage
  \/ NextHook
  \/ NextPicker
  \/ NextSession
  \/ NextDisplay
  \/ NextPublish
  \/ NextCache
  \/ NextDebounce
  \/ NextMetrics

SpecConvert == InitConvert /\ [][NextConvert]_vars
SpecVariant == InitVariant /\ [][NextVariant]_vars
SpecPalette == InitPalette /\ [][NextPalette]_vars
SpecContrast == InitContrast /\ [][NextContrast]_vars
SpecStorage == InitStorage /\ [][NextStorage]_vars
SpecHook == InitTheme /\ [][NextHook]_vars
SpecPicker == InitTheme /\ [][NextPicker]_vars
SpecSession == InitTheme /\ [][NextSession]_vars
SpecDisplay == InitDisplay /\ [][NextDisplay]_vars
SpecPublish == InitPublish /\ [][NextPublish]_vars
SpecCache == InitCache /\ [][NextCache]_vars
SpecDebounce == InitDebounce /\ [][NextDebounce]_vars
SpecMetrics == InitMetrics /\ [][NextMetrics]_vars
Spec == Init /\ [][Next]_vars

(***************************************************************************)
(* Variant derivation: claims C4, C5 and C6, checked under SpecVariant     *)
(***************************************************************************)
\* The amount or offset the call ran with
AmountUsed == ArgOr(argIn, DEFAULT_AMOUNT)
OffsetUsed == IF fn = "getComplementaryColor" THEN 180 ELSE ArgOr(argIn, DEFAULT_OFFSET)

LightnessCall == pc = "done" /\ fn \in {"lightenColor", "darkenColor"}
HueCall == pc = "done" /\ fn \in {"getComplementaryColor", "getAnalogousColor"}

\* The fields of the argument lie in the ranges of the HSLColor type
ArgInRange == hslIn.h \in 0..360 /\ hslIn.s \in 0..100 /\ hslIn.l \in 0..100

\* C4: for every HSLColor and every amount, the lightness that lightenColor
\* or darkenColor returns lies in [0,100].  The statement is taken over the
\* colours of the HSLColor ranges, its weakest reading.
C4_LightnessAlwaysInRange == (LightnessCall /\ ArgInRange) => hslOut.l \in 0..100

\* C5: for every HSLColor and every offset, the hue that getComplementaryColor
\* and getAnalogousColor return is the input hue plus 180 (resp. plus the
\* offset) modulo 360, and so lies in [0,360).  The statement is taken over
\* the colours of the HSLColor ranges, its weakest reading.
C5_HueModulo360 ==
  (HueCall /\ ArgInRange) => /\ hslOut.h = (hslIn.h + OffsetUsed) % 360
                             /\ hslOut.h >= 0 /\ hslOut.h < 360

\* C6: each variant function changes only its own field and leaves its
\* argument as it was: lightenColor and darkenColor keep h and s,
\* getComplementaryColor and getAnalogousColor keep s and l.
C6_OnlyOwnFieldChanges ==
  [][(pc' = "done") =>
       /\ hslIn' = hslIn
       /\ fn' \in {"lightenColor", "darkenColor"} =>
            hslOut'.h = hslIn.h /\ hslOut'.s = hslIn.s
       /\ fn' \in {"getComplementaryColor", "getAnalogousColor"} =>
            hslOut'.s = hslIn.s /\ hslOut'.l = hslIn.l]_vars

\* A variant function has changed its own field and nothing else
C6_Witness ==
  /\ pc = "done" /\ fn = "getComplementaryColor"
  /\ hslOut.h # hslIn.h
  /\ hslOut.s = hslIn.s /\ hslOut.l = hslIn.l

(***************************************************************************)
(* Conversion: claims C1, C9 and C10, checked under SpecConvert            *)
(***************************************************************************)
\* The three channels a hex string decodes to, parsed as hexToHSL parses them
HexChannels(hex) ==
  [i \in 1..3 |-> ParseInt16(Substr(StrReplaceFirst(hex, "#"), 2 * (i - 1), 2))]

AbsI(x) == IF x < 0 THEN -x ELSE x

Converted == pc \in {"converted", "done"}

\* C1: for every 6-digit hex colour x, hslToHex(hexToHSL(x)) decodes to
\* channels that each differ from the corresponding channel of x by at most 1.
C1_RoundTripWithinOne ==
  pc = "done" =>
    \A i \in 1..3 : AbsI(HexChannels(hexOut)[i] - HexChannels(hexIn)[i]) <= 1

\* The three channels of the input are equal
Achromatic(hex) ==
  HexChannels(hex)[1] = HexChannels(hex)[2] /\ HexChannels(hex)[2] = HexChannels(hex)[3]

\* C9: for every achromatic 6-digit hex, hexToHSL returns h = 0 and s = 0 and
\* as l the channel value v scaled to a percentage and rounded, that is
\* 100 * v / 255 rounded to the nearest integer; white gives (0,0,100) and
\* black gives (0,0,0).
C9_AchromaticIsGrey ==
  (Converted /\ Achromatic(hexIn)) =>
    hslOut = [h |-> 0, s |-> 0, l |-> (200 * HexChannels(hexIn)[1] + 255) \div 510]

\* White has been converted, to (0,0,100)
C9_Witness ==
  /\ pc = "converted"
  /\ hexIn = HexOf(255, 255, 255)
  /\ hslOut = [h |-> 0, s |-> 0, l |-> 100]

\* The same colour spelled the other way: without its '#', or with one
OtherSpelling(hex) == IF Head(hex) = "#" THEN Tail(hex) ELSE <<"#">> \o hex

\* C10: for every 6-digit hex input, with or without the leading '#',
\* hexToHSL returns integers with 0 <= h <= 360, 0 <= s <= 100 and
\* 0 <= l <= 100, and the result is the same with and without the '#'.
C10_RangesAndOptionalHash ==
  Converted =>
    /\ hslOut.h \in 0..360
    /\ hslOut.s \in 0..100
    /\ hslOut.l \in 0..100
    /\ hslOut = hexToHSL(OtherSpelling(hexIn))

\* A chromatic colour spelled without '#' has been converted
C10_Witness ==
  /\ pc = "converted"
  /\ hexIn = Tail(HexOf(255, 0, 0))
  /\ hslOut = [h |-> 0, s |-> 100, l |-> 50]

(***************************************************************************)
(* Palette generation: claims C2, C3, C7 and C8, checked under SpecPalette *)
(***************************************************************************)
\* C2: for every valid 6-digit hex seed, the primary slot of
\* generateColorPalette(seed) equals the seed, compared case-insensitively.
C2_PrimaryIsSeed == pc = "done" => Lower(palette.primary) = Lower(hexIn)

\* ^#[0-9a-fA-F]{6}$
IsHexColour(str) ==
  Len(str) = 7 /\ str[1] = "#" /\ \A i \in 2..7 : IsHexDigit(str[i])

\* C3: for every valid 6-digit hex seed, all nine slots of
\* generateColorPalette(seed) are '#' followed by exactly six hex digits.
C3_SlotsAreHexColours ==
  pc = "done" => \A slot \in DOMAIN palette : IsHexColour(palette[slot])

\* The palette of a seed with channels below 16, where the padding acts
C3_Witness ==
  /\ pc = "done"
  /\ hexIn = HexOf(255, 0, 0)
  /\ palette.primary = HexOf(255, 0, 0)
  /\ palette.primaryDark = HexOf(179, 0, 0)

\* C7: for every seed with (h,s,l) = hexToHSL(seed), the derived slots are
\* hslToHex of: primaryLight = (h, s, min(100, l+15)); primaryDark =
\* (h, s, max(0, l-15)); secondary = ((h+60) mod 360, s, l); accent =
\* ((h+180) mod 360, min(80, s+20), l).
C7_DerivedSlots ==
  pc = "done" =>
    \A c \in {hexToHSL(hexIn)} :
      /\ palette.primaryLight = hslToHex([h |-> c.h, s |-> c.s, l |-> MinI(100, c.l + 15)])
      /\ palette.primaryDark = hslToHex([h |-> c.h, s |-> c.s, l |-> MaxI(0, c.l - 15)])
      /\ palette.secondary = hslToHex([h |-> (c.h + 60) % 360, s |-> c.s, l |-> c.l])
      /\ palette.accent =
           hslToHex([h |-> (c.h + 180) % 360, s |-> MinI(80, c.s + 20), l |-> c.l])

\* The palette of #3b82f6, (217,91,60): the accent hue wraps to 37 and its
\* saturation is capped at 80
C7_Witness ==
  /\ pc = "done"
  /\ hexIn = HexOf(59, 130, 246)
  /\ palette.accent = hslToHex([h |-> 37, s |-> 80, l |-> 60])
  /\ palette.primaryLight = hslToHex([h |-> 217, s |-> 91, l |-> 75])

\* Saturation above 0 and lightness strictly between 0 and 100
NonDegenerate(c) == c.s > 0 /\ c.l > 0 /\ c.l < 100

\* C8: for every valid non-degenerate seed, each of primaryLight,
\* primaryDark, secondary and accent differs from primary.
C8_DerivedDifferFromPrimary ==
  (pc = "done" /\ NonDegenerate(hexToHSL(hexIn))) =>
    /\ palette.primaryLight # palette.primary
    /\ palette.primaryDark # palette.primary
    /\ palette.secondary # palette.primary
    /\ palette.accent # palette.primary
(***************************************************************************)
(* Contrast: claims C11, C12 and C13, checked under SpecContrast           *)
(***************************************************************************)
Rated == pc \in {"rated", "swapped", "done"}
RatedBothWays == pc \in {"swapped", "done"}

\* C11: getContrastRatio is symmetric: the ratio of (color1, color2) is the
\* ratio of (color2, color1).
C11_ContrastSymmetric == RatedBothWays => contrastSwapped = contrast

\* Two colours of different luminance, the darker one first, rated both ways
C11_Witness ==
  /\ RatedBothWays
  /\ FLt(getLuminance(color1), getLuminance(color2))
  /\ FGt(contrast, FOne)

\* C12: the contrast ratio of two valid hex colours lies in [1, 21], and the
\* ratio of a colour with itself is 1.
C12_RatioInRange ==
  Rated => /\ FLe(FOne, contrast)
           /\ FLe(contrast, FFromInt(21))
           /\ (color1 = color2 => contrast = FOne)

\* Black rated against white: the ratio reaches the upper end
C12_Witness ==
  /\ Rated
  /\ color1 = HexOf(0, 0, 0)
  /\ color2 = HexOf(255, 255, 255)
  /\ contrast = FFromInt(21)

\* C13: meetsContrastRequirement(foreground, background) is true exactly when
\* the contrast ratio of the two colours is at least 4.5; it is true for
\* black on white and false for a colour against itself.
C13_MeetsIffRatioAtLeast45 ==
  pc = "done" =>
    /\ meets <=> FCmp(contrast, CONTRAST_REQUIRED) >= 0
    /\ (color1 = HexOf(0, 0, 0) /\ color2 = HexOf(255, 255, 255)) => meets
    /\ color1 = color2 => ~meets

\* A pair that meets the requirement with a ratio below 7, judged after it
\* was rated
C13_Witness ==
  /\ pc = "done"
  /\ meets
  /\ FLt(contrast, FFromInt(7))

(***************************************************************************)
(* Collaborators of the engine: claim C14, checked under SpecPicker        *)
(***************************************************************************)
\* /^#?([0-9a-fA-F]{6})$/.test(str): the strings the conversion functions
\* are written for
IsCoreHex(str) ==
  \/ Len(str) = 7 /\ Head(str) = "#" /\ \A i \in 2..7 : IsHexDigit(str[i])
  \/ Len(str) = 6 /\ \A i \in 1..6 : IsHexDigit(str[i])

\* C14: every colour string the ColorPicker (typed input or preset) and the
\* ThemeProvider (stored colour or setCustomColor) pass into
\* generateColorPalette or hexToHSL is six hex digits with an optional '#'.
C14_CoreGetsSixDigitHex == Len(coreArg) > 0 => IsCoreHex(coreArg[1])

(***************************************************************************)
(* The hook: claims C15 and C16, checked under SpecHook                    *)
(***************************************************************************)
\* C15: useTheme throws an Error when the component that calls it is not
\* inside a ThemeProvider.
C15_ThrowsOutsideProvider == (hook # "none" /\ ~inside) => hook = "threw"

\* The cyclic order system -> light -> dark -> system
CyclicSuccessor(m) ==
  CASE m = SYSTEM -> LIGHT
    [] m = LIGHT -> DARK
    [] m = DARK -> SYSTEM

\* C16: toggleMode and cycleTheme call setMode with the successor of the
\* current mode in the order system -> light -> dark -> system, and the
\* third toggle of a run brings the mode back to where the run started.
C16_ToggleCycles ==
  [][toggleCount' = toggleCount + 1 =>
       /\ lastSetMode' = <<CyclicSuccessor(CurrentMode)>>
       /\ toggleCount' = 3 => CurrentMode' = toggleStart']_vars

(***************************************************************************)
(* Theme storage: claims C17, C18 and C19, checked under SpecStorage       *)
(***************************************************************************)
JustLoaded == fn = "loadThemeFromStorage"

\* The stored item is JSON text of an object (arrays apart)
HoldsObject(ls) ==
  /\ Len(ls.item) = 1
  /\ ls.item[1].syntax = "json"
  /\ ls.item[1].value.t = "object"

\* The stored object and its field key, when it holds one
StoredFields(ls) == ls.item[1].value.f
HoldsField(ls, key) == HoldsObject(ls) /\ key \in DOMAIN StoredFields(ls)

\* The storage can be read and holds an entry of version '1.0.0'
HoldsCurrentEntry(ls) ==
  /\ ls.access \in {"ok", "full"}
  /\ HoldsField(ls, "version")
  /\ StoredFields(ls).version.t = "string"
  /\ StoredFields(ls).version.v = <<"1", ".", "0", ".", "0">>

TheDefaults ==
  [mode |-> [t |-> "string", v |-> <<"s", "y", "s", "t", "e", "m">>, f |-> <<>>],
   customColor |-> [t |-> "string", v |-> <<"#", "3", "b", "8", "2", "f", "6">>, f |-> <<>>],
   version |-> [t |-> "string", v |-> <<"1", ".", "0", ".", "0">>, f |-> <<>>]]

\* C17: loadThemeFromStorage returns exactly the defaults {mode: 'system',
\* customColor: '#3b82f6', version: '1.0.0'} when storage is unavailable,
\* holds no entry, unparsable JSON, a non-object or an entry of another
\* version, or when reading throws; and it never throws.
C17_DefaultsWhenUnusable ==
  JustLoaded =>
    /\ Len(loaded) = 1
    /\ {"mode", "customColor", "version"} \subseteq DOMAIN loaded[1]
    /\ ~HoldsCurrentEntry(localStorage) => loaded[1] = TheDefaults

\* An entry of version '0.9.0' with a valid mode and colour was loaded
C17_Witness ==
  /\ JustLoaded
  /\ localStorage.access = "ok"
  /\ HoldsField(localStorage, "version")
  /\ StoredFields(localStorage).version = JsString(OLD_VERSION)
  /\ HoldsField(localStorage, "mode")
  /\ StoredFields(localStorage).mode = JsString(DARK)
  /\ loaded[1].mode = JsString(SYSTEM)

\* A stored field that holds the string of a mode / of a hex colour
ValidModeValue(value) == value.t = "string" /\ value.v \in {SYSTEM, LIGHT, DARK}
ValidColourValue(value) ==
  /\ value.t = "string"
  /\ Len(value.v) \in {4, 7}
  /\ value.v[1] = "#"
  /\ \A i \in 2..Len(value.v) : IsHexDigit(value.v[i])

HoldsValidMode(ls) == HoldsField(ls, "mode") /\ ValidModeValue(StoredFields(ls).mode)
HoldsValidColour(ls) ==
  HoldsField(ls, "customColor") /\ ValidColourValue(StoredFields(ls).customColor)

\* C18: for a stored entry of the current version loadThemeFromStorage
\* repairs each field on its own: an invalid mode becomes 'system' and an
\* invalid customColor '#3b82f6', while a valid mode or customColor is kept
\* whatever the other field is; the returned mode is one of system / light /
\* dark and the returned customColor matches the hex pattern.
C18_FieldsRepairedIndependently ==
  (JustLoaded /\ HoldsCurrentEntry(localStorage)) =>
    /\ loaded[1].mode = IF HoldsValidMode(localStorage)
                        THEN StoredFields(localStorage).mode ELSE TheDefaults.mode
    /\ loaded[1].customColor = IF HoldsValidColour(localStorage)
                               THEN StoredFields(localStorage).customColor
                               ELSE TheDefaults.customColor
    /\ ValidModeValue(loaded[1].mode)
    /\ ValidColourValue(loaded[1].customColor)

\* An entry with an invalid mode and a valid colour was loaded: the mode is
\* repaired and the colour kept
C18_Witness ==
  /\ JustLoaded
  /\ HoldsCurrentEntry(localStorage)
  /\ HoldsField(localStorage, "mode")
  /\ StoredFields(localStorage).mode = JsString(INVALID_MODE)
  /\ loaded[1].mode = JsString(SYSTEM)
  /\ loaded[1].customColor = JsString(RED)

JustSaved == fn = "saveThemeToStorage"

\* The field key of the stored entry as <<value>>, or <<>> when the storage
\* holds no object with that field
RawField(ls, key) == IF HoldsField(ls, key) THEN <<StoredFields(ls)[key]>> ELSE <<>>

\* The preference the existing entry stands for: its field when the entry is
\* of the current version and the field is valid, and the default otherwise
ExistingMode(ls) ==
  IF HoldsCurrentEntry(ls) /\ HoldsValidMode(ls)
  THEN StoredFields(ls).mode ELSE TheDefaults.mode
ExistingColour(ls) ==
  IF HoldsCurrentEntry(ls) /\ HoldsValidColour(ls)
  THEN StoredFields(ls).customColor ELSE TheDefaults.customColor

\* C19 as stated: saveThemeToStorage with a partial update leaves the stored
\* fields it was not given unchanged (saving {mode} the stored customColor,
\* saving {customColor} the stored mode), and the written version is '1.0.0'.
C19_OtherStoredFieldUnchanged ==
  [][(JustSaved' /\ localStorage.access = "ok") =>
       /\ RawField(localStorage', "version") = <<TheDefaults.version>>
       /\ ("customColor" \notin DOMAIN saveArg'[1] /\ HoldsField(localStorage, "customColor"))
            => RawField(localStorage', "customColor") = RawField(localStorage, "customColor")
       /\ ("mode" \notin DOMAIN saveArg'[1] /\ HoldsField(localStorage, "mode"))
            => RawField(localStorage', "mode") = RawField(localStorage, "mode")]_vars

\* C19 amended: saveThemeToStorage writes the given fields, and for a field
\* it was not given the preference the existing entry stands for: the stored
\* field of a current-version entry when it is valid, and the default when
\* the entry is missing, unreadable or of another version or the field is
\* invalid; the written version is '1.0.0'.  When storage cannot be written
\* the item stays as it was.
C19_WritesExistingPreferences ==
  [][JustSaved' =>
       IF localStorage.access = "ok"
       THEN /\ RawField(localStorage', "version") = <<TheDefaults.version>>
            /\ RawField(localStorage', "mode") =
                 IF "mode" \in DOMAIN saveArg'[1] THEN <<saveArg'[1].mode>>
                 ELSE <<ExistingMode(localStorage)>>
            /\ RawField(localStorage', "customColor") =
                 IF "customColor" \in DOMAIN saveArg'[1] THEN <<saveArg'[1].customColor>>
                 ELSE <<ExistingColour(localStorage)>>
       ELSE localStorage' = localStorage]_vars

\* A mode was saved over a valid entry of the current version: the stored
\* colour is the one the entry held
C19_Witness ==
  /\ JustSaved
  /\ localStorage.access = "ok"
  /\ DOMAIN saveArg[1] = {"mode"}
  /\ saveArg[1].mode = JsString(LIGHT)
  /\ RawField(localStorage, "mode") = <<JsString(LIGHT)>>
  /\ RawField(localStorage, "customColor") = <<JsString(SHORT_COLOR)>>

\* ------------------------------------------------------------------------
\* Persistence of the selections: claim C20, checked under SpecSession
\* ------------------------------------------------------------------------

LoadedInProvider == JustLoaded /\ inside /\ localStorage.access = "ok"

\* C20 as stated: after any setMode and setCustomColor calls on the
\* ThemeProvider, with storage available, loadThemeFromStorage returns the
\* mode of the last setMode call and the colour of the last setCustomColor
\* call.
C20_SelectionsPersist ==
  LoadedInProvider =>
    /\ lastSetMode # <<>> => loaded[1].mode = JsString(lastSetMode[1])
    /\ lastSetColor # <<>> => loaded[1].customColor = JsString(lastSetColor[1])

\* C20 amended: loadThemeFromStorage returns the mode of the last setMode
\* call, and the colour of the last setCustomColor call when that colour is
\* '#' followed by three or six hex digits; after a setCustomColor call with
\* any other string it returns the default colour.
C20_ValidSelectionsPersist ==
  LoadedInProvider =>
    /\ lastSetMode # <<>> => loaded[1].mode = JsString(lastSetMode[1])
    /\ lastSetColor # <<>> =>
         loaded[1].customColor =
           IF ValidColourValue(JsString(lastSetColor[1]))
           THEN JsString(lastSetColor[1]) ELSE TheDefaults.customColor

\* Dark and a three-digit colour were selected and are loaded back
C20_Witness ==
  /\ LoadedInProvider
  /\ lastSetMode = <<DARK>>
  /\ lastSetColor = <<SHORT_COLOR>>
  /\ loaded[1].mode = JsString(DARK)
  /\ loaded[1].customColor = JsString(SHORT_COLOR)

\* ------------------------------------------------------------------------
\* The published mode: claim C21, checked under SpecPublish
\* ------------------------------------------------------------------------

\* The provider is mounted and its effects on [mode] last ran for the mode
\* its cell holds: the cleanup of the effects for the mode before has run
EffectsRun == ~hasError /\ provider.isInitialized /\ effectsMode = <<provider.mode>>

OsPreference == IF prefersDark THEN DARK ELSE LIGHT

ExpectedResolved ==
  CASE provider.mode = LIGHT -> LIGHT
    [] provider.mode = DARK -> DARK
    [] provider.mode = SYSTEM -> OsPreference


HandledColorChange == fn \in {"handleColorChange", "handlePresetSelect"}

\* The text the handler was called with is what it put into localColor
RejectedInput == HandledColorChange /\ ~ValidColourValue(JsString(picker.localColor))

\* C22: when handleColorChange receives a string that does not match the hex
\* pattern it marks the input invalid, calls neither setCustomColor nor
\* onColorChange, does not regenerate the palette, and leaves the colour of
\* the theme and the stored preferences as they were.
C22_InvalidInputChangesNothing ==
  [][RejectedInput' =>
       /\ ~picker'.isValidColor
       /\ lastSetColor' = lastSetColor
       /\ notified' = notified
       /\ picker'.paletteSeed = picker.paletteSeed
       /\ coreArg' = coreArg
       /\ provider' = provider
       /\ localStorage' = localStorage]_vars

\* A colour name was typed after a valid colour had been chosen
C22_Witness ==
  /\ RejectedInput
  /\ inside
  /\ picker.localColor = COLOR_NAME
  /\ ~picker.isValidColor
  /\ lastSetColor = <<RED>>
  /\ notified = <<RED>>
  /\ provider.customColor = RED

\* ------------------------------------------------------------------------
\* The colour caches: claims C23 and C24, checked under SpecCache
\* ------------------------------------------------------------------------

\* C23: paletteCache never holds more than 50 entries and hslCache never
\* more than 100.
C23_CachesWithinLimits == Len(paletteCache) <= 50 /\ Len(hslCache) <= 100

Entries(cache) == {cache[i] : i \in DOMAIN cache}

\* What a call may do to the Map it works on: on a hit nothing; on a miss
\* the new entry goes behind the others, at most one entry leaves, and the
\* one that leaves was inserted before every other one
CacheStep(before, after, hit) ==
  IF hit
  THEN after = before
  ELSE /\ Cardinality(Entries(before) \ Entries(after)) <= 1
       /\ \A gone \in Entries(before) \ Entries(after) :
            \A e \in Entries(before) : gone.at <= e.at
       /\ \A i, j \in DOMAIN after : i < j => after[i].at < after[j].at

\* C24: an insertion evicts at most one entry, and it is the one inserted
\* earliest among those cached; a hit evicts nothing and leaves the order of
\* eviction as it was.
C24_EvictsOldestInsertion ==
  [][/\ paletteCache' # paletteCache \/ (cacheCall'.cache = "palette" /\ cacheCall'.hit)
        => CacheStep(paletteCache, paletteCache', cacheCall'.hit)
     /\ hslCache' # hslCache \/ (cacheCall'.cache = "hsl" /\ cacheCall'.hit)
        => CacheStep(hslCache, hslCache', cacheCall'.hit)]_vars

\* The palette cache evicted an entry whose colour is not the first of the
\* colours it holds: a colour that had been evicted came back and is now
\* the newest
C24_Witness ==
  /\ cacheCall.cache = "palette"
  /\ ~cacheCall.hit
  /\ Len(paletteCache) > PALETTE_CACHE_LIMIT
  /\ \E i \in DOMAIN paletteCache : paletteCache[i].key < paletteCache[1].key
  /\ paletteInserts > Len(paletteCache) + 1

\* ------------------------------------------------------------------------
\* Debouncing: claim C25, checked under SpecDebounce
\* ------------------------------------------------------------------------

\* All calls so far came less than the wait after the call before
IsBurst ==
  /\ calledLog # <<>>
  /\ \A i \in 1..(Len(calledLog) - 1) : calledLog[i + 1].at - calledLog[i].at < 100

LastCall == calledLog[Len(calledLog)]

\* C25: when the calls of a debounced function come less than 100 ms after
\* one another, the wrapped function runs once, no sooner than 100 ms after
\* the last call and with the arguments of the last call: it has not run
\* more than once, it has run once when no timeout is pending any more, and
\* a run it made was that late and had those arguments.
C25_BurstRunsOnceWithLastArgs ==
  IsBurst =>
    /\ Len(ranLog) <= 1
    /\ timers = {} => Len(ranLog) = 1
    /\ \A i \in DOMAIN ranLog :
         /\ ranLog[i].args = LastCall.args
         /\ ranLog[i].at >= LastCall.at + 100

\* Three picks within 100 ms of one another, red first and green last, and
\* the one run that followed
C25_Witness ==
  /\ IsBurst
  /\ Len(calledLog) = 3
  /\ calledLog[1].args = RED
  /\ calledLog[3].args = GREEN
  /\ calledLog[3].at > calledLog[1].at
  /\ timers = {}
  /\ Len(ranLog) = 1
  /\ ranLog[1].args = GREEN

\* ------------------------------------------------------------------------
\* hslToHex and hslToRgb: claim C26, checked under SpecConvert
\* ------------------------------------------------------------------------

\* The channels a seven-character hex string encodes
EncodedChannels(hex) ==
  [r |-> ParseInt16(SubSeq(hex, 2, 3)), g |-> ParseInt16(SubSeq(hex, 4, 5)),
   b |-> ParseInt16(SubSeq(hex, 6, 7))]

\* C26: the channels hslToRgb returns are the channels hslToHex encodes: for
\* the HSL value hexToHSL gave, the hex string hslToHex made of it is seven
\* characters that spell the three numbers of hslToRgb.
C26_SameChannels ==
  pc = "done" =>
    /\ Len(hexOut) = 7
    /\ EncodedChannels(hexOut) = hslToRgb(hslOut)

\* A colour whose three channels differ, in the fifth hue sector
C26_Witness ==
  /\ pc = "done"
  /\ hslOut.h > 240
  /\ hslOut.h < 300
  /\ hslOut.s > 0
  /\ EncodedChannels(hexOut).r # EncodedChannels(hexOut).g
  /\ EncodedChannels(hexOut).g # EncodedChannels(hexOut).b
  /\ EncodedChannels(hexOut).r # EncodedChannels(hexOut).b

\* ------------------------------------------------------------------------
\* Hue sectors: claim C27, checked under SpecConvert
\* ------------------------------------------------------------------------

\* The hue, divided by 360, satisfies the test of one of the six branches
InSomeSector(h) ==
  /\ FLe(FZero, FDiv(FFromInt(h), F360))
  /\ FLt(FDiv(FFromInt(h), F360), FOne)

\* C27: every hue hexToHSL returns falls into one of the six hue sectors of
\* hslToHex, and hslToHex renders a colour of hue 360 as it renders the same
\* saturation and lightness at hue 0.
C27_EveryHueInASector ==
  pc = "done" =>
    /\ InSomeSector(hslOut.h)
    /\ hslOut.h = 360 => hexOut = hslToHex([hslOut EXCEPT !.h = 0])

\* ------------------------------------------------------------------------
\* The default props: claim C28, checked under SpecDisplay
\* ------------------------------------------------------------------------

\* The provider has initialised, nothing was selected since, and storage
\* holds nothing under the key of the theme
InitialisedWithoutPreferences ==
  /\ provider.isInitialized
  /\ lastSetMode = <<>>
  /\ lastSetColor = <<>>
  /\ localStorage.item = <<>>

\* C28: when storage holds no saved preferences, the mode after
\* initialisation is the defaultMode prop and the colour is the
\* defaultCustomColor prop.
C28_PropsUsedWithoutPreferences ==
  InitialisedWithoutPreferences =>
    /\ provider.mode = props.defaultMode
    /\ provider.customColor = props.defaultCustomColor

\* ------------------------------------------------------------------------
\* Following the OS preference: claim C29, checked under SpecDisplay
\* ------------------------------------------------------------------------

NewOsPreference == IF prefersDark' THEN DARK ELSE LIGHT

\* C29: the OS preference moves resolvedMode and data-theme only while the
\* listener of system mode is registered.  A listener is registered exactly
\* from the run of the effects for mode system to the run of its cleanup,
\* so once the effects have run for the mode of the provider, exactly when
\* that mode is system; registering calls the callback once; each OS change
\* calls the callback of a registered listener once, which publishes the
\* new preference; and with no listener registered, as after the cleanup
\* that follows a switch to light or dark, an OS change calls nothing and
\* leaves resolvedMode and data-theme as they were.
C29_OsFollowedOnlyInSystemMode ==
  [][/\ listening' <=> effectsMode' = <<SYSTEM>>
     /\ EffectsRun' => (listening' <=> provider'.mode = SYSTEM)
     /\ (listening' /\ effectsMode' # effectsMode) => callbackCalls' = callbackCalls + 1
     /\ prefersDark' # prefersDark =>
          IF listening
          THEN /\ callbackCalls' = callbackCalls + 1
               /\ resolvedMode' = NewOsPreference
               /\ dataTheme' = <<NewOsPreference>>
          ELSE /\ callbackCalls' = callbackCalls
               /\ resolvedMode' = resolvedMode
               /\ dataTheme' = dataTheme]_vars

\* The mode went from system to dark, the cleanup and the effects ran, and
\* then the OS turned to light: the page stays dark and the callback count
\* stands at the one call of the registration
C29_Witness ==
  /\ fn = "handleChange"
  /\ EffectsRun
  /\ props.defaultMode = SYSTEM
  /\ lastSetMode = <<DARK>>
  /\ provider.mode = DARK
  /\ ~prefersDark
  /\ ~listening
  /\ callbackCalls = 1
  /\ resolvedMode = DARK
  /\ dataTheme = <<DARK>>

\* ------------------------------------------------------------------------
\* The metrics: claim C30, checked under SpecMetrics
\* ------------------------------------------------------------------------

\* C30: totalOperations is the sum of colorChanges and modeChanges in every
\* state, and right after reset or cleanup all three are zero.
C30_TotalIsSum ==
  /\ trackMetrics.totalOperations = trackMetrics.colorChanges + trackMetrics.modeChanges
  /\ fn \in {"reset", "cleanup"} =>
       /\ trackMetrics.colorChanges = 0
       /\ trackMetrics.modeChanges = 0
       /\ trackMetrics.totalOperations = 0

\* Counting went on after a reset: two colour changes and three mode changes
C30_Witness ==
  /\ fn = "incrementModeChanges"
  /\ trackMetrics.colorChanges = 2
  /\ trackMetrics.modeChanges = 3
  /\ trackMetrics.totalOperations = 5

====
